---- MODULE Spec2Model ----
(***************************************************************************)
(* A model of wiki-bot: the inbound WhatsApp command router               *)
(* (src/api/routes/webhook.py), the recipient and fact stores              *)
(* (src/data_access), and the daily production job                         *)
(* (src/services/scheduler_service.py).                                    *)
(*                                                                         *)
(* The store is one PostgreSQL database shared by every process that runs  *)
(* the application, so handlers and production runs are interleaved at the *)
(* granularity of one store operation (one session / transaction).         *)
(*                                                                         *)
(* Language is the two-valued enum the routes, repositories and scheduler  *)
(* import (Language.ENGLISH, Language.HEBREW), and a User row carries the  *)
(* language column that user_repository.get_user_by_phone copies.          *)
(*                                                                         *)
(* generate_and_send_daily_facts has two callers, the scheduler's cron job *)
(* and /admin/trigger-fact-generation; each has one run in flight at most. *)
(* A run is followed within its calendar day.  What the content source,    *)
(* the summarizer and the message channel answer is chosen by the          *)
(* environment: no article, no valid summary or a summary; a send accepted *)
(* or not.  The replies of the inbound router are recorded as attempts.    *)
(*                                                                         *)
(* Three services are modelled on their own: WhatsAppService.send_message  *)
(* with User.is_in_session_window, WhatsAppService.broadcast_daily_facts   *)
(* with its batches of ten concurrent sends, and                           *)
(* DatabaseClient.execute_with_retry with its three attempts.              *)
(*                                                                         *)
(* So are the methods of UserRepository and FactRepository with the faults *)
(* of their sessions, WikipediaService.get_random_article with its five    *)
(* executions, cleanup_old_data over the days around its cutoffs,          *)
(* /admin/broadcast, and the decoding of a request by /webhook/whatsapp.   *)
(*                                                                         *)
(* AIService._validate_summary is computed on texts at the limits of its   *)
(* length, sentence, script and phrase tests.  The sub-menu handler is     *)
(* also run against a store whose update raises or whose row is deleted    *)
(* meanwhile, the job is also run as two coroutines of one event loop,     *)
(* its fan-out is compared with broadcast_daily_facts, and the writes of   *)
(* the repositories are also run with a refresh that fails after the       *)
(* commit.                                                                 *)
(***************************************************************************)
EXTENDS Integers, Sequences, FiniteSets, Bags, TLC

VARIABLES
    users,      \* the users table: a set of rows
    history,    \* per phone, the values written to users.subscribed, in order
    handlers,   \* inbound events: a bag of process_whatsapp_message activations
    facts,      \* the daily_facts table: a set of rows
    clock,      \* the current calendar day, an index into the calendar
    runs,       \* per trigger, its activation of generate_and_send_daily_facts
    started,    \* the number of production runs started today
    daily_sends,\* a bag: the daily-fact messages the channel accepted today
    now,        \* datetime.now(timezone.utc), in seconds
    settings,   \* settings.twilio: is_sandbox, has_templates
    outbound,   \* the calls of WhatsAppService.send_message, in order
    bcast,      \* the activation of broadcast_daily_facts
    dbcall,     \* the activation of DatabaseClient.execute_with_retry
    wiki,       \* the activation of WikipediaService.get_random_article
    admin,      \* the /admin/broadcast request and its response
    http        \* the request Twilio delivers to /webhook/whatsapp

inboundVars == <<users, history, handlers>>
dailyVars == <<facts, clock, runs, started, daily_sends>>
serviceVars == <<now, settings, outbound, bcast, dbcall>>
callVars == <<wiki, admin, http>>
vars == <<inboundVars, dailyVars, serviceVars, callVars>>

-----------------------------------------------------------------------------
(* Bounds *)

\* number of inbound events (webhook calls / direct handler calls) explored
MaxEvents == 2
\* number of WhatsAppService.send_message calls explored
MaxSends == 2
\* number of users in the lists handed to broadcast_daily_facts
MaxUsers == 11
\* number of sends of a broadcast that do not return a message id
MaxFailures == 1
\* number of production runs started in a day, over both triggers
MaxRuns == 2
\* the last day of the calendar the clock can reach
MaxDay == 1

-----------------------------------------------------------------------------
(* Values *)

LanguageSet == {"ENGLISH", "HEBREW"}

Phones == { <<"+15551230000">>, <<"+15551230001">> }

\* The From form field, as a sequence of tokens; "whatsapp:" is the
\* nine-character channel prefix.
FromValues ==
    { <<"whatsapp:">> \o p : p \in Phones } \cup Phones \cup { <<"whatsapp:">> }

\* Characters: " " is whitespace; "sup2" is U+00B2, for which Python's
\* str.isdigit() is true although it is no decimal digit.
Whitespace == {" "}
DecimalChars == {"0", "1", "2", "3", "4", "5", "6", "7", "8", "9"}
DigitChars == DecimalChars \cup {"sup2"}

\* The Body form field: {} is a missing field (None), {t} the text t, a
\* sequence of characters.
RawTexts ==
    { <<>>, <<" ">>, <<"a", "b", "c">>, <<" ", "2", " ">>, <<"2">>, <<"1">>,
      <<"3">>, <<"4">>, <<"0">>, <<"0", "0">>, <<"1", "7">>, <<"sup2">> }
BodyValues == { {} } \cup { {t} : t \in RawTexts }

-----------------------------------------------------------------------------
(* Python string functions, on sequences of characters *)

RECURSIVE lstrip(_)
lstrip(s) ==
    IF s # <<>> /\ Head(s) \in Whitespace THEN lstrip(Tail(s)) ELSE s

RECURSIVE rstrip(_)
rstrip(s) ==
    IF s # <<>> /\ s[Len(s)] \in Whitespace
    THEN rstrip(SubSeq(s, 1, Len(s) - 1))
    ELSE s

strip(s) == rstrip(lstrip(s))

lowerChar(c) ==
    CASE c = "A" -> "a" [] c = "B" -> "b" [] c = "C" -> "c"
      [] c = "I" -> "i" [] c = "N" -> "n" [] c = "S" -> "s" [] OTHER -> c

lower(s) == [i \in 1..Len(s) |-> lowerChar(s[i])]

\* str.split(sep): the pieces between the occurrences of sep.
RECURSIVE split(_, _)
split(s, sep) ==
    IF \A i \in 1..Len(s) : s[i] # sep THEN <<s>>
    ELSE LET k == CHOOSE i \in 1..Len(s) :
                    s[i] = sep /\ \A j \in 1..(i - 1) : s[j] # sep
         IN  <<SubSeq(s, 1, k - 1)>> \o split(SubSeq(s, k + 1, Len(s)), sep)

\* pattern in text
Contains(pattern, text) ==
    \E i \in 0..(Len(text) - Len(pattern)) :
        SubSeq(text, i + 1, i + Len(pattern)) = pattern

isdigit(s) == Len(s) > 0 /\ \A i \in 1..Len(s) : s[i] \in DigitChars

-----------------------------------------------------------------------------
(* The users table and UserRepository *)

User(id, phone, subscribed, language) ==
    [id |-> id, phone |-> phone, subscribed |-> subscribed,
     language |-> language, last_message_at |-> {},
     created_at |-> 0, updated_at |-> {}]

\* The unique index on users.phone: an insert of a taken phone is refused.
PhoneTakenNoIndex(store, phone) == FALSE
PhoneTaken(store, phone) == \E u \in store : u.phone = phone

NextUserId(store) ==
    IF store = {} THEN 1
    ELSE 1 + (CHOOSE m \in {u.id : u \in store} :
                 \A u \in store : u.id <= m)

\* create_user: the row that is inserted; subscribed and created_at take
\* their defaults.
create_user(store, phone, language) ==
    [User(NextUserId(store), phone, TRUE, language) EXCEPT !.created_at = now]

\* get_user_by_phone: .first() of the matching rows, as a detached copy;
\* {} is None.
get_user_by_phone(store, phone) ==
    LET found == {u \in store : u.phone = phone}
    IN  IF found = {} THEN {}
        ELSE {CHOOSE u \in found : \A v \in found : u.id <= v.id}

\* user_data.model_dump(exclude_unset=True) is a set of <<field, value>>
\* pairs; the loop of update_user sets each of them on the row.
setattr(user, field, value) == [user EXCEPT ![field] = value]

RECURSIVE SetFields(_, _)
SetFields(user, update_data) ==
    IF update_data = {} THEN user
    ELSE LET item == CHOOSE x \in update_data : TRUE
         IN  SetFields(setattr(user, item[1], item[2]), update_data \ {item})

\* update_user at time t: the store afterwards.  A phone with no row
\* leaves the store as it is.
update_user_or_delete(store, phone, user_data, t) ==
    LET found == get_user_by_phone(store, phone)
    IN  IF found = {} THEN store
        ELSE LET u == CHOOSE x \in found : TRUE
                 updated == [SetFields(u, user_data) EXCEPT !.updated_at = {t}]
             IN  IF updated.subscribed THEN (store \ {u}) \cup {updated}
                 ELSE store \ {u}
update_user_upsert(store, phone, user_data, t) ==
    LET found == get_user_by_phone(store, phone)
        u == IF found = {} THEN create_user(store, phone, "ENGLISH")
             ELSE CHOOSE x \in found : TRUE
    IN  (store \ {u}) \cup
            {[SetFields(u, user_data) EXCEPT !.updated_at = {t}]}
update_user(store, phone, user_data, t) ==
    LET found == get_user_by_phone(store, phone)
    IN  IF found = {} THEN store
        ELSE LET u == CHOOSE x \in found : TRUE
             IN  (store \ {u}) \cup
                    {[SetFields(u, user_data) EXCEPT !.updated_at = {t}]}

\* update_user with UserUpdate(subscribed=value): the store afterwards.
update_user_subscribed(store, phone, value) ==
    update_user(store, phone, {<<"subscribed", value>>}, now)

\* update_user with UserUpdate(language=value).
update_user_language(store, phone, value) ==
    update_user(store, phone, {<<"language", value>>}, now)

\* update_last_message at time t: the store afterwards.
update_last_message(store, phone, t) ==
    LET found == get_user_by_phone(store, phone)
    IN  IF found = {} THEN store
        ELSE LET u == CHOOSE x \in found : TRUE
             IN  (store \ {u}) \cup {[u EXCEPT !.last_message_at = {t}]}

\* delete_user: the store afterwards.
delete_user(store, phone) == store \ get_user_by_phone(store, phone)

\* get_all_subscribed_users: the rows that are selected.
get_all_subscribed_users(store) == {u \in store : u.subscribed}

\* The stores the model starts from: at most one row per phone, ids in
\* insertion order, either value of subscribed, and both languages present.
InitialLanguage(phone) ==
    IF phone = <<"+15551230000">> THEN "ENGLISH" ELSE "HEBREW"

InitialStores ==
    { s \in SUBSET { User(id, p, sub, InitialLanguage(p)) :
                       id \in 1..Cardinality(Phones), p \in Phones,
                       sub \in BOOLEAN } :
        /\ \A u, v \in s : (u.phone = v.phone \/ u.id = v.id) => u = v
        /\ {u.id : u \in s} = 1..Cardinality(s)
        /\ \A u, v \in s : u.id < v.id => u.language = "ENGLISH" }

-----------------------------------------------------------------------------
(* WhatsAppService: the outbound messages *)

Msg(kind, type, phone, language, flag) ==
    [kind |-> kind, message_type |-> type, to |-> phone,
     language |-> language, flag |-> flag]

send_main_menu(phone, language) ==
    Msg("main_menu", "welcome", phone, language, FALSE)

send_help_message(phone, language) ==
    Msg("help", "help", phone, language, FALSE)

send_subscription_menu(phone, language, current_status) ==
    Msg("subscription_menu", "subscription_changed", phone, language,
        current_status)

send_language_menu(phone, current_language) ==
    Msg("language_menu", "language_changed", phone, current_language, FALSE)

send_subscription_changed_message(phone, subscribed, language) ==
    Msg("subscription_changed", "subscription_changed", phone, language,
        subscribed)

send_language_changed_message(phone, new_language) ==
    Msg("language_changed", "language_changed", phone, new_language, FALSE)

-----------------------------------------------------------------------------
(* Inbound events: whatsapp_webhook and process_whatsapp_message *)

Handler(phone, body, pc, status) ==
    [phone |-> phone, body |-> body, pc |-> pc, status |-> status,
     user |-> {}, first_contact |-> FALSE, number |-> <<>>,
     replies |-> <<>>, error |-> FALSE, at0 |-> 0, at1 |-> 0]

HandlerSet == BagToSet(handlers)

Replace(bag, old, new) == (bag (-) SetToBag({old})) (+) SetToBag({new})

\* From[9:] if From.startswith("whatsapp:") else From
RECURSIVE StripEveryPrefix(_)
StripEveryPrefix(from) ==
    IF from # <<>> /\ Head(from) = "whatsapp:"
    THEN StripEveryPrefix(Tail(from)) ELSE from
StripPrefix(from) ==
    IF from # <<>> /\ Head(from) = "whatsapp:" THEN Tail(from) ELSE from

\* Body.strip() if Body else ""
MessageBody(Body) ==
    IF Body = {} THEN <<>>
    ELSE LET t == CHOOSE x \in Body : TRUE
         IN  IF t = <<>> THEN <<>> ELSE strip(t)

\* The HTTP handler: answers 400 for an empty sender, otherwise schedules
\* process_whatsapp_message as a background task and answers 200.
whatsapp_webhook(From, Body) ==
    /\ BagCardinality(handlers) < MaxEvents
    /\ LET from_phone == StripPrefix(From)
           message_body == MessageBody(Body)
       IN  handlers' = handlers (+) SetToBag({
               IF from_phone = <<>>
               THEN Handler(from_phone, message_body, "rejected", 400)
               ELSE Handler(from_phone, message_body, "queued", 200) })
    /\ UNCHANGED <<users, history, dailyVars, serviceVars, callVars>>

\* The request in http is delivered, once or, when Twilio delivers it
\* again, several times.
receive_whatsapp_webhook == \E r \in http : whatsapp_webhook(r.From, r.Body)

\* body = message.body.lower().strip()
ProcessedBody(h) == strip(lower(h.body))

\* if body and body.strip().isdigit(): the numeric handler, else the menu
IsNumberResponse(body) == body # <<>> /\ isdigit(strip(body))

\* The reply to a message that is no number response.
TextReplyHelp(phone, language) == send_help_message(phone, language)
TextReply(phone, language) == send_main_menu(phone, language)

\* process_whatsapp_message up to its first branch: the lookup, and for an
\* existing user the routing of the text.
Lookup(h) ==
    /\ h.pc = "queued"
    /\ LET body == ProcessedBody(h)
           user == get_user_by_phone(users, h.phone)
       IN  handlers' = Replace(handlers, h,
             IF user = {}
             THEN [h EXCEPT !.pc = "create", !.first_contact = TRUE]
             ELSE IF IsNumberResponse(body)
             THEN [h EXCEPT !.pc = "number", !.user = user,
                            !.number = strip(body)]
             ELSE LET u == CHOOSE x \in user : TRUE
                  IN  [h EXCEPT !.pc = "done", !.user = user,
                         !.replies = <<TextReply(h.phone, u.language)>>])
    /\ UNCHANGED <<users, history, dailyVars, serviceVars, callVars>>

\* The except clause of process_whatsapp_message: the exception is logged
\* and the background task ends; the response was sent before.
Escaped(h) == [h EXCEPT !.pc = "done", !.error = TRUE, !.status = 500]
Caught(h) == [h EXCEPT !.pc = "done", !.error = TRUE]

\* The new-user branch: create_user, then the main menu; an exception of
\* create_user ends the event in the handler's except clause.
Create(h) ==
    /\ h.pc = "create"
    /\ UNCHANGED <<dailyVars, serviceVars, callVars>>
    /\ IF PhoneTaken(users, h.phone)
       THEN /\ handlers' = Replace(handlers, h, Caught(h))
            /\ UNCHANGED <<users, history>>
       ELSE LET user == create_user(users, h.phone, "ENGLISH")
            IN  /\ users' = users \cup {user}
                /\ history' = [history EXCEPT
                                 ![h.phone] = Append(@, user.subscribed)]
                /\ handlers' = Replace(handlers, h,
                     [h EXCEPT !.pc = "done", !.user = {user},
                        !.replies = <<send_main_menu(h.phone, user.language)>>])

\* handle_number_response: the main-menu table.
MainMenuChoiceOldNumbering(number) ==
    CASE number = <<"1">> -> "help"
      [] number = <<"2">> -> "sub_menu"
      [] number = <<"3">> -> "help"
      [] number = <<"0">> -> "main_menu"
      [] OTHER -> "main_menu"
MainMenuChoiceSwapped(number) ==
    CASE number = <<"1">> -> "help"
      [] number = <<"2">> -> "language_menu"
      [] number = <<"3">> -> "subscription_menu"
      [] number = <<"4">> -> "help"
      [] number = <<"0">> -> "main_menu"
      [] OTHER -> "sub_menu"
MainMenuChoiceFromTwo(number) ==
    CASE number = <<"2">> -> "subscription_menu"
      [] number = <<"3">> -> "language_menu"
      [] number = <<"4">> -> "help"
      [] number = <<"0">> -> "main_menu"
      [] OTHER -> "sub_menu"
MainMenuChoice(number) ==
    CASE number = <<"1">> -> "help"
      [] number = <<"2">> -> "subscription_menu"
      [] number = <<"3">> -> "language_menu"
      [] number = <<"4">> -> "help"
      [] number = <<"0">> -> "main_menu"
      [] OTHER -> "sub_menu"

MainMenuReplyDailyFact(choice, phone, user) ==
    CASE choice = "help" ->
            Msg("daily_fact", "daily_fact", phone, user.language, FALSE)
      [] choice = "subscription_menu" ->
            send_subscription_menu(phone, user.language, user.subscribed)
      [] choice = "language_menu" -> send_language_menu(phone, user.language)
      [] OTHER -> send_main_menu(phone, user.language)
MainMenuReply(choice, phone, user) ==
    CASE choice = "help" -> send_help_message(phone, user.language)
      [] choice = "subscription_menu" ->
            send_subscription_menu(phone, user.language, user.subscribed)
      [] choice = "language_menu" -> send_language_menu(phone, user.language)
      [] OTHER -> send_main_menu(phone, user.language)

\* handle_number_response: the fresh lookup, then the dispatch.
Number(h) ==
    /\ h.pc = "number"
    /\ LET user == get_user_by_phone(users, h.phone)
           choice == MainMenuChoice(h.number)
       IN  handlers' = Replace(handlers, h,
             IF user = {}
             THEN [h EXCEPT !.pc = "done", !.user = user]
             ELSE IF choice = "sub_menu"
             THEN [h EXCEPT !.pc = "submenu", !.user = user,
                            !.at0 = Len(history[h.phone])]
             ELSE LET u == CHOOSE x \in user : TRUE
                  IN  [h EXCEPT !.pc = "done", !.user = user,
                         !.replies = <<MainMenuReply(choice, h.phone, u)>>])
    /\ UNCHANGED <<users, history, dailyVars, serviceVars, callVars>>

\* handle_sub_menu_response, branch "1": the value written to subscribed.
ToggledKeep(subscribed) == subscribed
Toggled(subscribed) == IF subscribed THEN FALSE ELSE TRUE

\* handle_sub_menu_response(phone, number, user)
SubMenu(h) ==
    /\ h.pc = "submenu"
    /\ UNCHANGED <<dailyVars, serviceVars, callVars>>
    /\ LET u == CHOOSE x \in h.user : TRUE
           present == get_user_by_phone(users, h.phone) # {}
       IN  IF h.number = <<"1">>
           THEN /\ users' = update_user_subscribed(users, h.phone,
                                                   Toggled(u.subscribed))
                /\ history' = IF present
                              THEN [history EXCEPT ![h.phone] =
                                      Append(@, Toggled(u.subscribed))]
                              ELSE history
                /\ handlers' = Replace(handlers, h,
                     [h EXCEPT !.pc = "done",
                        !.at1 = Len(history'[h.phone]),
                        !.replies = <<send_subscription_changed_message(
                            h.phone, Toggled(u.subscribed), u.language)>>])
           ELSE IF h.number = <<"2">>
           THEN /\ users' = IF u.language # "HEBREW"
                            THEN update_user_language(users, h.phone, "HEBREW")
                            ELSE users
                /\ handlers' = Replace(handlers, h,
                     [h EXCEPT !.pc = "done",
                        !.replies = <<send_language_changed_message(
                            h.phone, "HEBREW")>>])
                /\ UNCHANGED history
           ELSE /\ handlers' = Replace(handlers, h,
                     [h EXCEPT !.pc = "done",
                        !.replies = <<send_main_menu(h.phone, u.language)>>])
                /\ UNCHANGED <<users, history>>

\* The branches of handle_sub_menu_response that call update_user.
Updates(h) ==
    \/ h.number = <<"1">>
    \/ h.number = <<"2">> /\ (CHOOSE x \in h.user : TRUE).language # "HEBREW"

\* handle_sub_menu_response when update_user raises (RetryError after the
\* last transient fault, or the first other exception): the transaction is
\* rolled back, the except clause logs the exception and the function
\* returns without a send.
SubMenuRaised(h) ==
    /\ h.pc = "submenu"
    /\ Updates(h)
    /\ handlers' = Replace(handlers, h, [h EXCEPT !.pc = "done", !.error = TRUE])
    /\ UNCHANGED <<users, history, dailyVars, serviceVars, callVars>>

\* UserRepository.delete_user called on its own for a stored phone.
call_delete_user(phone) ==
    /\ PhoneTaken(users, phone)
    /\ users' = delete_user(users, phone)
    /\ UNCHANGED <<history, handlers, dailyVars, serviceVars, callVars>>

\* handle_sub_menu_response called on its own, with the user its caller
\* fetched: the sub-menu numbers as the function's parameters allow them.
SubMenuNumbers == { <<"1">>, <<"2">>, <<"0">>, <<"7">> }

call_handle_sub_menu_response(phone, number) ==
    /\ BagCardinality(handlers) < MaxEvents
    /\ LET user == get_user_by_phone(users, phone)
       IN  /\ user # {}
           /\ handlers' = handlers (+) SetToBag({
                [Handler(phone, number, "submenu", 200) EXCEPT
                    !.user = user, !.number = number,
                    !.at0 = Len(history[phone])] })
    /\ UNCHANGED <<users, history, dailyVars, serviceVars, callVars>>

-----------------------------------------------------------------------------
(* The calendar *)

Date(year, month, day) == [year |-> year, month |-> month, day |-> day]

\* The days the clock passes through: 30 November 2023, then the first day
\* of each month from January 2024 on.
DateOf(i) ==
    IF i = 0 THEN Date(2023, 11, 30)
    ELSE Date(2024 + ((i - 1) \div 12), ((i - 1) % 12) + 1, 1)

DateLess(a, b) ==
    \/ a.year < b.year
    \/ a.year = b.year /\ a.month < b.month
    \/ a.year = b.year /\ a.month = b.month /\ a.day < b.day

-----------------------------------------------------------------------------
(* The daily_facts table and FactRepository *)

Languages == <<"ENGLISH", "HEBREW">>

DailyFact(date, language, summary) ==
    [date |-> date, language |-> language, summary |-> summary]

\* The unique index ix_daily_facts_date_language: an insert of a taken
\* (date, language) is refused.
FactTakenNoIndex(store, date, language) == FALSE
FactTaken(store, date, language) ==
    \E f \in store : f.date = date /\ f.language = language

\* create_daily_fact: the row that is inserted.
create_daily_fact(date, language, summary) ==
    DailyFact(date, language, summary)

\* get_daily_fact: .first() of the matching rows; {} is None.
get_daily_fact_none(store, fact_date, language) == {}
get_daily_fact(store, fact_date, language) ==
    LET found == {f \in store : f.date = fact_date /\ f.language = language}
    IN  IF found = {} THEN {}
        ELSE {CHOOSE f \in found : TRUE}

\* delete_old_facts: the rows that stay.
delete_old_facts(store, older_than_date) ==
    {f \in store : ~DateLess(f.date, older_than_date)}

RECURSIVE SortById(_)
SortById(rows) ==
    IF rows = {} THEN <<>>
    ELSE LET first == CHOOSE u \in rows : \A v \in rows : u.id <= v.id
         IN  <<first>> \o SortById(rows \ {first})

\* get_subscribed_users_by_language: the list of rows, in id order.
get_users_by_language(store, language) ==
    SortById({u \in store : u.language = language})
get_subscribed_users_by_language(store, language) ==
    SortById({u \in store : u.subscribed /\ u.language = language})

-----------------------------------------------------------------------------
(* The daily production job: generate_and_send_daily_facts *)

NoFacts == [l \in LanguageSet |-> {}]
NoUsers == [l \in LanguageSet |-> <<>>]

\* The two callers of generate_and_send_daily_facts: the scheduler's cron
\* job (max_instances = 1) and /admin/trigger-fact-generation.
Triggers == {"cron", "admin"}

\* The text the summarizer returns to a run: every run in flight gets a
\* text of its own for each language.
Summary(t, language) == <<"summary", t, language>>

\* The calls of get_random_article and generate_daily_fact_summary a run
\* has made are counted per language.
NoCalls == [l \in LanguageSet |-> 0]

\* had is the set of languages whose fact for today was persisted before
\* the run began.
Run(pc, today, had) ==
    [pc |-> pc, today |-> today, i |-> 1, had |-> had,
     existing_facts |-> NoFacts, facts_to_send |-> NoFacts,
     failed |-> {}, conflicts |-> {}, wiki_calls |-> NoCalls,
     ai_calls |-> NoCalls,
     users_by_language |-> NoUsers]

IdleRun == Run("idle", DateOf(0), {})

\* The next position of a loop over languages: the next language, or the
\* next step of the job.
AdvanceUnlessFailed(r, next_pc) ==
    IF r.i < Len(Languages) /\ r.failed = {} THEN [r EXCEPT !.i = r.i + 1]
    ELSE [r EXCEPT !.i = 1, !.pc = next_pc]
Advance(r, next_pc) ==
    IF r.i < Len(Languages) THEN [r EXCEPT !.i = r.i + 1]
    ELSE [r EXCEPT !.i = 1, !.pc = next_pc]

\* Entry of the job for one trigger: today = DateType.today().
StartRun(t) ==
    /\ runs[t].pc = "idle"
    /\ started < MaxRuns
    /\ started' = started + 1
    /\ LET today == DateOf(clock)
       IN  runs' = [runs EXCEPT ![t] =
             Run("check", today,
                 {l \in LanguageSet : FactTaken(facts, today, l)})]
    /\ UNCHANGED <<inboundVars, serviceVars, callVars, facts, clock, daily_sends>>

\* Step 1, one language: the lookup of today's fact.
CheckExisting(t) ==
    /\ runs[t].pc = "check"
    /\ LET r == runs[t]
           language == Languages[r.i]
           existing_fact == get_daily_fact(facts, r.today, language)
       IN  runs' = [runs EXCEPT ![t] =
             Advance([r EXCEPT !.existing_facts[language] =
                        {f.summary : f \in existing_fact}],
                     "generate")]
    /\ UNCHANGED <<inboundVars, serviceVars, callVars, facts, clock, started, daily_sends>>

\* What the content source, the summarizer and the store return to one
\* call of _generate_daily_fact_for_language: no article, no valid summary,
\* a summary (a text of its own for every run), or a summary and a session
\* of create_daily_fact that fails before its commit.
GenerationOutcomes == {"no_article", "no_summary", "summary", "save_error"}

\* _generate_daily_fact_for_language: the run afterwards.
GeneratedAgain(r, language, outcome, taken, summary) ==
    LET called == IF outcome = "no_article"
                  THEN [r EXCEPT !.wiki_calls[language] = @ + 1]
                  ELSE IF outcome = "no_summary"
                  THEN [r EXCEPT !.wiki_calls[language] = @ + 2,
                                 !.ai_calls[language] = @ + 2]
                  ELSE [r EXCEPT !.wiki_calls[language] = @ + 1,
                                 !.ai_calls[language] = @ + 1]
    IN  IF outcome # "summary"
        THEN [called EXCEPT !.failed = @ \cup {language}]
        ELSE IF taken
        THEN [called EXCEPT !.conflicts = @ \cup {language},
                            !.failed = @ \cup {language}]
        ELSE [called EXCEPT !.facts_to_send[language] = {summary}]
Generated(r, language, outcome, taken, summary) ==
    LET called == IF outcome = "no_article"
                  THEN [r EXCEPT !.wiki_calls[language] = @ + 1]
                  ELSE [r EXCEPT !.wiki_calls[language] = @ + 1,
                                 !.ai_calls[language] = @ + 1]
    IN  IF outcome # "summary"
        THEN [called EXCEPT !.failed = @ \cup {language}]
        ELSE IF taken
        THEN [called EXCEPT !.conflicts = @ \cup {language},
                            !.failed = @ \cup {language}]
        ELSE [called EXCEPT !.facts_to_send[language] = {summary}]

\* Step 2, one language: reuse of the existing fact, or
\* _generate_daily_fact_for_language.
ReuseExisting(r, language) == r.existing_facts[language] # {}

Generate(t, outcome) ==
    /\ runs[t].pc = "generate"
    /\ LET r == runs[t]
           language == Languages[r.i]
           taken == FactTaken(facts, r.today, language)
       IN  IF ReuseExisting(r, language)
           THEN /\ outcome = "summary"
                /\ runs' = [runs EXCEPT ![t] =
                     Advance([r EXCEPT !.facts_to_send[language] =
                                r.existing_facts[language]], "load")]
                /\ UNCHANGED facts
           ELSE /\ runs' = [runs EXCEPT ![t] =
                     Advance(Generated(r, language, outcome, taken,
                                       Summary(t, language)),
                             "load")]
                /\ facts' = IF outcome = "summary" /\ ~taken
                            THEN facts \cup {create_daily_fact(
                                    r.today, language, Summary(t, language))}
                            ELSE facts
    /\ UNCHANGED <<inboundVars, serviceVars, callVars, clock, started, daily_sends>>

\* Step 2, one language, when create_daily_fact commits the fact and
\* session.refresh(fact) raises: the fact is in the table, the exception
\* reaches _generate_daily_fact_for_language, which returns "".
GenerateRefreshFails(t) ==
    /\ runs[t].pc = "generate"
    /\ LET r == runs[t]
           language == Languages[r.i]
       IN  /\ ~ReuseExisting(r, language)
           /\ ~FactTaken(facts, r.today, language)
           /\ runs' = [runs EXCEPT ![t] =
                Advance(Generated(r, language, "save_error", FALSE,
                                  Summary(t, language)),
                        "load")]
           /\ facts' = facts \cup {create_daily_fact(
                                      r.today, language, Summary(t, language))}
    /\ UNCHANGED <<inboundVars, serviceVars, callVars, clock, started, daily_sends>>

\* Step 3: for every language that has a fact, its subscribed users.
LoadUsers(t) ==
    /\ runs[t].pc = "load"
    /\ LET r == runs[t]
       IN  runs' = [runs EXCEPT ![t] =
             [r EXCEPT !.pc = "broadcast",
                !.users_by_language = [language \in LanguageSet |->
                   IF r.facts_to_send[language] # {}
                   THEN get_subscribed_users_by_language(users, language)
                   ELSE <<>>]]]
    /\ UNCHANGED <<inboundVars, serviceVars, callVars, facts, clock, started, daily_sends>>

RECURSIVE BagOfSendsOneFact(_, _, _, _)
BagOfSendsOneFact(today, todo, facts_by_language, accepted) ==
    IF todo = {} THEN EmptyBag
    ELSE LET u == CHOOSE x \in todo : TRUE
             rest == BagOfSendsOneFact(today, todo \ {u}, facts_by_language,
                                       accepted)
         IN  IF u.phone \in accepted /\ facts_by_language[u.language] # {}
             THEN rest (+) SetToBag({
                    [date |-> today, to |-> u.phone, language |-> u.language,
                     summary |-> CHOOSE x \in UNION {facts_by_language[l] :
                                     l \in LanguageSet} : TRUE]})
             ELSE rest

RECURSIVE BagOfSends(_, _, _, _)
\* broadcast_daily_facts: one send_daily_fact per listed user; `accepted`
\* are the phones whose send the channel accepted.
BagOfSends(today, todo, facts_by_language, accepted) ==
    IF todo = {} THEN EmptyBag
    ELSE LET u == CHOOSE x \in todo : TRUE
             rest == BagOfSends(today, todo \ {u}, facts_by_language, accepted)
         IN  IF u.phone \in accepted /\ facts_by_language[u.language] # {}
             THEN rest (+) SetToBag({
                    [date |-> today, to |-> u.phone, language |-> u.language,
                     summary |-> CHOOSE x \in facts_by_language[u.language] :
                                    TRUE]})
             ELSE rest

Listed(users_by_language) ==
    UNION { {users_by_language[l][k] : k \in 1..Len(users_by_language[l])} :
              l \in LanguageSet }

\* Step 4: the broadcast, when there are users and facts, and the end of
\* the run.
Broadcast(t, accepted) ==
    /\ runs[t].pc = "broadcast"
    /\ LET r == runs[t]
           listed == Listed(r.users_by_language)
       IN  IF listed # {} /\ r.facts_to_send # NoFacts
           THEN /\ accepted \subseteq {u.phone : u \in listed}
                /\ daily_sends' = daily_sends (+)
                     BagOfSends(r.today, listed, r.facts_to_send, accepted)
           ELSE /\ accepted = {}
                /\ daily_sends' = daily_sends
    /\ runs' = [runs EXCEPT ![t] = IdleRun]
    /\ UNCHANGED <<inboundVars, serviceVars, callVars, facts, clock, started>>

\* The job inside one event loop.  Steps 1 to 3 hold no await that
\* suspends: get_daily_fact, get_random_article, generate_daily_fact_summary,
\* create_daily_fact and the user query are blocking calls, and awaiting
\* _generate_daily_fact_for_language runs it at once.  The first suspension
\* is the asyncio.gather of broadcast_daily_facts, entered when there are
\* users and facts; another coroutine of the loop runs only from there on.

\* Step 1 over the table fs.
Looked(r, fs) ==
    [r EXCEPT !.existing_facts = [l \in LanguageSet |->
        {f.summary : f \in get_daily_fact(fs, r.today, l)}]]

\* Step 2 for one language: the run and the table afterwards.
GeneratedFor(t, s, language, outcome) ==
    LET r == s.run
        taken == FactTaken(s.facts, r.today, language)
    IN  IF ReuseExisting(r, language)
        THEN [run |-> [r EXCEPT !.facts_to_send[language] =
                         r.existing_facts[language]],
              facts |-> s.facts]
        ELSE [run |-> Generated(r, language, outcome, taken,
                                Summary(t, language)),
              facts |-> IF outcome = "summary" /\ ~taken
                        THEN s.facts \cup {create_daily_fact(
                                r.today, language, Summary(t, language))}
                        ELSE s.facts]

\* Step 3 over the table us.
Loaded(r, us) ==
    [r EXCEPT !.pc = "broadcast",
       !.users_by_language = [language \in LanguageSet |->
          IF r.facts_to_send[language] # {}
          THEN get_subscribed_users_by_language(us, language)
          ELSE <<>>]]

\* The job from its entry to its first suspension, or to its end when it
\* has nothing to broadcast; outcomes gives, per language, what the
\* generation meets.
RunUntilBroadcast(t, outcomes) ==
    /\ runs[t].pc = "idle"
    /\ started < MaxRuns
    /\ started' = started + 1
    /\ LET today == DateOf(clock)
           r0 == Looked(Run("generate", today,
                            {l \in LanguageSet : FactTaken(facts, today, l)}),
                        facts)
           s1 == GeneratedFor(t, [run |-> r0, facts |-> facts],
                              Languages[1], outcomes[Languages[1]])
           s2 == GeneratedFor(t, s1, Languages[2], outcomes[Languages[2]])
           r3 == Loaded(s2.run, users)
       IN  /\ facts' = s2.facts
           /\ runs' = [runs EXCEPT ![t] =
                IF Listed(r3.users_by_language) # {}
                   /\ r3.facts_to_send # NoFacts
                THEN r3 ELSE IdleRun]
    /\ UNCHANGED <<inboundVars, serviceVars, callVars, clock, daily_sends>>

\* cleanup_old_data: the cutoff is the first day of the month before the
\* current one.
CutoffCurrentMonth(today) == [today EXCEPT !.day = 1]
Cutoff(today) ==
    LET first == [today EXCEPT !.day = 1]
    IN  IF first.month > 1
        THEN [first EXCEPT !.month = first.month - 1]
        ELSE [first EXCEPT !.year = first.year - 1, !.month = 12]

cleanup_old_data ==
    /\ facts' = delete_old_facts(facts, Cutoff(DateOf(clock)))
    /\ UNCHANGED <<inboundVars, serviceVars, callVars, clock, runs, started, daily_sends>>

\* The calendar moves on to its next day, between runs; daily_sends and
\* started are those of the current day.
Tick ==
    /\ clock < MaxDay
    /\ \A t \in Triggers : runs[t].pc = "idle"
    /\ clock' = clock + 1
    /\ started' = 0
    /\ daily_sends' = EmptyBag
    /\ UNCHANGED <<inboundVars, serviceVars, callVars, facts, runs>>

-----------------------------------------------------------------------------
(* AIService: generate_daily_fact_summary and _validate_summary *)

\* The characters of U+0590..U+05FF, by the names of the letters.
HebrewChars ==
    {"alef", "bet", "gimel", "vav", "tet", "yod", "kaf", "lamed", "mem",
     "nun", "samekh", "ayin", "tsadi", "resh"}

min_length == 50
max_length == 400

\* avoid_patterns
avoid_patterns ==
    { <<"I", " ", "c", "a", "n", "n", "o", "t">>,
      <<"I", " ", "d", "o", "n", "'", "t", " ", "h", "a", "v", "e">>,
      <<"I", "'", "m", " ", "s", "o", "r", "r", "y">>,
      <<"A", "s", " ", "a", "n", " ", "A", "I">>,
      <<"alef", "nun", "yod", " ", "lamed", "alef", " ",
        "yod", "kaf", "vav", "lamed">>,
      <<"alef", "nun", "yod", " ", "lamed", "alef", " ",
        "mem", "samekh", "vav", "gimel", "lamed">>,
      <<"alef", "nun", "yod", " ", "mem", "tsadi", "tet", "ayin", "resh">>,
      <<"kaf", "bet", "vav", "tet", " ", "A", "I">> }

\* len([s for s in summary.split('.') if s.strip()])
sentence_count(summary) ==
    LET pieces == split(summary, ".")
    IN  Cardinality({k \in 1..Len(pieces) : strip(pieces[k]) # <<>>})

hebrew_chars(summary) ==
    Cardinality({i \in 1..Len(summary) : summary[i] \in HebrewChars})

\* _validate_summary.  hebrew_chars < len(summary) * 0.3 is compared in
\* tenths: for every length up to max_length the product in floating point
\* has the same integers below it as the exact product.
validate_summary_any_script(summary, language) ==
    LET count == sentence_count(summary)
        summary_lower == lower(summary)
    IN  /\ Len(strip(summary)) # 0
        /\ ~(Len(summary) < min_length \/ Len(summary) > max_length)
        /\ ~(count < 1 \/ count > 5)
        /\ ~\E pattern \in avoid_patterns :
              Contains(lower(pattern), summary_lower)
validate_summary(summary, language) ==
    LET count == sentence_count(summary)
        summary_lower == lower(summary)
    IN  /\ Len(strip(summary)) # 0
        /\ ~(Len(summary) < min_length \/ Len(summary) > max_length)
        /\ ~(count < 1 \/ count > 5)
        /\ language = "HEBREW" =>
              ~(hebrew_chars(summary) * 10 < Len(summary) * 3)
        /\ ~\E pattern \in avoid_patterns :
              Contains(lower(pattern), summary_lower)

\* What the completion API answers: an error, or a list of choices, each
\* the content of a message.
Response(error, choices) == [error |-> error, choices |-> choices]

\* generate_daily_fact_summary, for an article that has content: {} is
\* None, {summary} the summary.
generate_daily_fact_summary(language, response) ==
    IF response.error THEN {}
    ELSE IF Len(response.choices) > 0
    THEN LET summary == strip(response.choices[1])
         IN  IF validate_summary(summary, language) THEN {summary} ELSE {}
    ELSE {}

\* Step 2 of the job, one language, with the text of the summarizer:
\* `article` is what get_random_article returned, {} for None.
GenerateText(t, article, response) ==
    /\ runs[t].pc = "generate"
    /\ LET r == runs[t]
           language == Languages[r.i]
           taken == FactTaken(facts, r.today, language)
           fact_summary == IF article = {} THEN {}
                           ELSE generate_daily_fact_summary(language, response)
           outcome == IF article = {} THEN "no_article"
                      ELSE IF fact_summary = {} THEN "no_summary"
                      ELSE "summary"
           text == IF fact_summary = {} THEN <<>>
                   ELSE CHOOSE x \in fact_summary : TRUE
       IN  IF ReuseExisting(r, language)
           THEN /\ article = {}
                /\ response = Response(TRUE, <<>>)
                /\ runs' = [runs EXCEPT ![t] =
                     Advance([r EXCEPT !.facts_to_send[language] =
                                r.existing_facts[language]], "load")]
                /\ UNCHANGED facts
           ELSE /\ article = {} => response = Response(TRUE, <<>>)
                /\ runs' = [runs EXCEPT ![t] =
                     Advance(Generated(r, language, outcome, taken, text),
                             "load")]
                /\ facts' = IF outcome = "summary" /\ ~taken
                            THEN facts \cup {create_daily_fact(
                                    r.today, language, text)}
                            ELSE facts
    /\ UNCHANGED <<inboundVars, serviceVars, callVars, clock, started, daily_sends>>

-----------------------------------------------------------------------------
(* The session window and WhatsAppService.send_message *)

\* User.is_in_session_window at time t: {} is a last_message_at of None,
\* and the window is 24 * 60 * 60 seconds.
is_in_session_window_inclusive(user, t) ==
    IF user.last_message_at = {} THEN FALSE
    ELSE LET last_msg == CHOOSE x \in user.last_message_at : TRUE
         IN  t - last_msg <= 24 * 60 * 60
is_in_session_window(user, t) ==
    IF user.last_message_at = {} THEN FALSE
    ELSE LET last_msg == CHOOSE x \in user.last_message_at : TRUE
         IN  t - last_msg < 24 * 60 * 60

\* send_message(phone, content, message_type, user): the call as it ends.
\* user is {} when the caller passes none; in_window is the value of
\* user.is_in_session_window() when the call evaluates it; the message goes
\* out through client.messages.create(body=content), the free-form mode;
\* external_id is {} when the client raised.
send_message(phone, message_type, user, accepted) ==
    LET given == user # {}
        u == CHOOSE x \in user : TRUE
        in_window == IF given THEN {is_in_session_window(u, now)} ELSE {}
    IN  [to |-> phone, message_type |-> message_type, at |-> now,
         user |-> user, in_window |-> in_window,
         should_use_template |->
            given /\ ~is_in_session_window(u, now) /\ ~settings.is_sandbox,
         mode |-> "freeform",
         external_id |-> IF accepted THEN {"sid"} ELSE {}]

\* A reply that hands the user row to send_message, as send_main_menu does
\* for a caller that passes user.
call_send_message(u, with_user, accepted) ==
    /\ Len(outbound) < MaxSends
    /\ outbound' = Append(outbound,
          send_message(u.phone, "WELCOME", IF with_user THEN {u} ELSE {},
                       accepted))
    /\ UNCHANGED <<inboundVars, dailyVars, callVars, now, settings, bcast, dbcall>>

\* send_daily_fact(user, fact_content): send_message without the user.
call_send_daily_fact(u, accepted) ==
    /\ Len(outbound) < MaxSends
    /\ outbound' = Append(outbound,
          send_message(u.phone, "DAILY_FACT", {}, accepted))
    /\ UNCHANGED <<inboundVars, dailyVars, callVars, now, settings, bcast, dbcall>>

\* The values of last_message_at and of now the send path is explored for:
\* apart by 23h59m, 24h and 24h01m, a second around 24h, and a last message
\* later than now.
LastMessageValues == { {}, {0}, {60} }
NowValues == {0, 86340, 86399, 86400, 86401, 86460, 86520}

-----------------------------------------------------------------------------
(* WhatsAppService.broadcast_daily_facts *)

\* batch_size
BatchSize == 10

Min(a, b) == IF a < b THEN a ELSE b

\* The k-th user of the list of a language.
Recipient(language, k) == <<language, k>>

UserList(language, n) == [k \in 1..n |-> Recipient(language, k)]

\* The call: users_by_language is a dict (a function on its keys),
\* facts_by_language the languages that have a fact.  attempted, settled,
\* failed and delivered record the send_daily_fact calls: begun, ended,
\* ended without a message id, ended with one.
broadcast_daily_facts(users_by_language, facts_by_language) ==
    [pc |-> "language", users_by_language |-> users_by_language,
     facts_by_language |-> facts_by_language,
     results |-> [l \in {} |-> 0], li |-> 1, i |-> 0,
     successful_sends |-> 0, in_flight |-> {}, batch_results |-> <<>>,
     attempted |-> EmptyBag, settled |-> {}, failed |-> {},
     delivered |-> {}]

Put(f, key, value) ==
    [k \in DOMAIN f \cup {key} |-> IF k = key THEN value ELSE f[k]]

\* for language, users in users_by_language.items(): the next language, or
\* the return of results.
BroadcastLanguage ==
    /\ bcast.pc = "language"
    /\ bcast' =
         IF bcast.li > Len(Languages) THEN [bcast EXCEPT !.pc = "returned"]
         ELSE LET language == Languages[bcast.li]
              IN  IF language \notin DOMAIN bcast.users_by_language
                  THEN [bcast EXCEPT !.li = @ + 1]
                  ELSE IF language \notin bcast.facts_by_language
                  THEN [bcast EXCEPT !.li = @ + 1,
                          !.results = Put(@, language, 0)]
                  ELSE [bcast EXCEPT !.pc = "batch", !.i = 0,
                          !.successful_sends = 0]
    /\ UNCHANGED <<inboundVars, dailyVars, callVars, now, settings, outbound, dbcall>>

\* users[i:i + batch_size]: the last position of the batch that begins
\* after position i of a list of n users.
BatchEndWholeList(i, n) == n
BatchEnd(i, n) == Min(i + BatchSize, n)

\* for i in range(0, len(users), batch_size): the tasks of the next batch
\* are handed to asyncio.gather, or the language is done.
BroadcastBatch ==
    /\ bcast.pc = "batch"
    /\ LET language == Languages[bcast.li]
           users_ == bcast.users_by_language[language]
           batch == (bcast.i + 1)..BatchEnd(bcast.i, Len(users_))
       IN  bcast' =
             IF bcast.i < Len(users_)
             THEN [bcast EXCEPT !.pc = "gather", !.in_flight = batch,
                     !.batch_results = <<>>,
                     !.attempted = @ (+)
                        SetToBag({users_[k] : k \in batch})]
             ELSE [bcast EXCEPT !.pc = "language", !.li = @ + 1,
                     !.results = Put(@, language, bcast.successful_sends)]
    /\ UNCHANGED <<inboundVars, dailyVars, callVars, now, settings, outbound, dbcall>>

\* What the Twilio client does with a send.
SendOutcomes == {"sid", "TwilioException", "Exception"}

\* send_daily_fact: message_id is not None; an exception is caught and
\* gives False.
send_daily_fact_always(outcome) == TRUE
send_daily_fact(outcome) == outcome = "sid"

\* One task of the batch runs to its end.  The event loop runs the tasks
\* in the order they were handed to gather, and send_daily_fact has no
\* await that yields, so the tasks end in list order.
Settle(outcome) ==
    /\ bcast.pc = "gather"
    /\ bcast.in_flight # {}
    /\ outcome # "sid" => Cardinality(bcast.failed) < MaxFailures
    /\ LET language == Languages[bcast.li]
           k == CHOOSE x \in bcast.in_flight :
                   \A y \in bcast.in_flight : x <= y
           user == bcast.users_by_language[language][k]
       IN  bcast' = [bcast EXCEPT
             !.in_flight = @ \ {k},
             !.batch_results = Append(@, send_daily_fact(outcome)),
             !.settled = @ \cup {user},
             !.failed = IF outcome = "sid" THEN @ ELSE @ \cup {user},
             !.delivered = IF outcome = "sid" THEN @ \cup {user} ELSE @]
    /\ UNCHANGED <<inboundVars, dailyVars, callVars, now, settings, outbound, dbcall>>

\* for result in batch_results: the number of results that are True.
CountAll(batch_results) == Len(batch_results)
CountSuccessful(batch_results) ==
    Cardinality({k \in 1..Len(batch_results) : batch_results[k] = TRUE})

\* asyncio.gather returns when every task of the batch has ended; the
\* results are counted and the loop moves to the next batch.
GatherReturns ==
    /\ bcast.pc = "gather"
    /\ bcast.in_flight = {}
    /\ bcast' = [bcast EXCEPT !.pc = "batch",
                   !.successful_sends = @ + CountSuccessful(bcast.batch_results),
                   !.i = @ + BatchSize]
    /\ UNCHANGED <<inboundVars, dailyVars, callVars, now, settings, outbound, dbcall>>

-----------------------------------------------------------------------------
(* DatabaseClient.execute_with_retry *)

\* stop_after_attempt
StopAfterAttempt == 3

\* The repository operations that run through execute_with_retry and
\* execute_with_retry_manual_commit.
Operations ==
    { [name |-> "get_user_by_phone", manual_commit |-> FALSE],
      [name |-> "get_subscribed_users_by_language", manual_commit |-> FALSE],
      [name |-> "get_all_subscribed_users", manual_commit |-> FALSE],
      [name |-> "create_user", manual_commit |-> TRUE],
      [name |-> "update_user", manual_commit |-> TRUE],
      [name |-> "update_last_message", manual_commit |-> TRUE] }

\* How one attempt (the session, the operation, the commit) ends.
AttemptOutcomes ==
    {"ok", "OperationalError", "DisconnectionError", "IntegrityError",
     "RuntimeError"}

\* retry_if_exception_type((OperationalError, DisconnectionError))
RetryOnAnyException(outcome) == outcome # "ok"
RetryIf(outcome) == outcome \in {"OperationalError", "DisconnectionError"}

NoCall == [pc |-> "idle"]

\* A repository method calls execute_with_retry(operation).
call_execute_with_retry(operation) ==
    /\ dbcall.pc = "idle"
    /\ dbcall' = [pc |-> "running", operation |-> operation,
                  outcomes |-> <<>>, result |-> {}, error |-> {}]
    /\ UNCHANGED <<inboundVars, dailyVars, callVars, now, settings, outbound, bcast>>

\* One attempt, and what the retry decorator does with its outcome: the
\* result is returned; an exception that is not retried is raised; an
\* exception that is retried leads to the next attempt, or, at the last
\* attempt, to tenacity's RetryError.
Attempt(outcome) ==
    /\ dbcall.pc = "running"
    /\ LET attempt_number == Len(dbcall.outcomes) + 1
           tried == [dbcall EXCEPT !.outcomes = Append(@, outcome)]
       IN  dbcall' =
             IF outcome = "ok"
             THEN [tried EXCEPT !.pc = "returned",
                     !.result = {<<dbcall.operation.name, attempt_number>>}]
             ELSE IF ~RetryIf(outcome)
             THEN [tried EXCEPT !.pc = "raised", !.error = {outcome}]
             ELSE IF attempt_number >= StopAfterAttempt
             THEN [tried EXCEPT !.pc = "raised", !.error = {"RetryError"}]
             ELSE tried
    /\ UNCHANGED <<inboundVars, dailyVars, callVars, now, settings, outbound, bcast>>

-----------------------------------------------------------------------------
(* The methods of UserRepository and FactRepository, called on their own *)

UserUpdates == { {}, {<<"subscribed", TRUE>>}, {<<"subscribed", FALSE>>} }

\* A call of a repository method with its arguments; the arguments a
\* method does not take are left at their fillers.
RepositoryCall(name, phone, user_data, language, date) ==
    [name |-> name, phone |-> phone, user_data |-> user_data,
     language |-> language, date |-> date]

RepositoryCalls ==
    { RepositoryCall(name, phone, {}, "ENGLISH", DateOf(0)) :
        name \in {"get_user_by_phone", "create_user", "update_last_message",
                  "delete_user"},
        phone \in Phones }
    \cup { RepositoryCall("update_user", phone, user_data, "ENGLISH",
                          DateOf(0)) :
             phone \in Phones, user_data \in UserUpdates }
    \cup { RepositoryCall("get_subscribed_users_by_language", <<>>, {},
                          language, DateOf(0)) : language \in LanguageSet }
    \cup { RepositoryCall("get_all_subscribed_users", <<>>, {}, "ENGLISH",
                          DateOf(0)) }
    \cup { RepositoryCall(name, <<>>, {}, language, DateOf(day)) :
             name \in {"get_daily_fact", "create_daily_fact"},
             language \in LanguageSet, day \in 0..1 }
    \cup { RepositoryCall("delete_old_facts", <<>>, {}, "ENGLISH",
                          DateOf(day)) : day \in 0..1 }

\* The methods that run their operation through execute_with_retry or
\* execute_with_retry_manual_commit; the others open get_session().
Retrying(name) == name \in {o.name : o \in Operations}

\* The operation of a method on the tables at time t, when its session
\* works: the tables afterwards, and the value returned or the exception
\* raised ({} is no exception).
Effect(users_after, facts_after, result, error) ==
    [users |-> users_after, facts |-> facts_after, result |-> result,
     error |-> error]

OperationOn(c, us, fs, t) ==
    LET found == get_user_by_phone(us, c.phone)
    IN  CASE c.name = "get_user_by_phone" -> Effect(us, fs, found, {})
          [] c.name = "create_user" ->
               IF PhoneTaken(us, c.phone)
               THEN Effect(us, fs, {}, {"IntegrityError"})
               ELSE LET user == create_user(us, c.phone, "ENGLISH")
                    IN  Effect(us \cup {user}, fs, {user}, {})
          [] c.name = "update_user" ->
               LET after == update_user(us, c.phone, c.user_data, t)
               IN  Effect(after, fs,
                          IF found = {} THEN {}
                          ELSE get_user_by_phone(after, c.phone), {})
          [] c.name = "update_last_message" ->
               Effect(update_last_message(us, c.phone, t), fs, found # {}, {})
          [] c.name = "delete_user" ->
               Effect(delete_user(us, c.phone), fs, found # {}, {})
          [] c.name = "get_subscribed_users_by_language" ->
               Effect(us, fs,
                      get_subscribed_users_by_language(us, c.language), {})
          [] c.name = "get_all_subscribed_users" ->
               Effect(us, fs, get_all_subscribed_users(us), {})
          [] c.name = "get_daily_fact" ->
               Effect(us, fs, get_daily_fact(fs, c.date, c.language), {})
          [] c.name = "create_daily_fact" ->
               IF FactTaken(fs, c.date, c.language)
               THEN Effect(us, fs, {}, {"IntegrityError"})
               ELSE LET fact == create_daily_fact(c.date, c.language,
                                                  Summary("cron", c.language))
                    IN  Effect(us, fs \cup {fact}, {fact}, {})
          [] c.name = "delete_old_facts" ->
               LET after == delete_old_facts(fs, c.date)
               IN  Effect(us, after, Cardinality(fs \ after), {})

\* The values written to users.subscribed by the operation.
Written(c, us) ==
    IF c.phone = <<>> THEN <<>>
    ELSE IF c.name = "create_user" /\ ~PhoneTaken(us, c.phone) THEN <<TRUE>>
    ELSE IF c.name = "update_user" /\ PhoneTaken(us, c.phone)
    THEN IF <<"subscribed", TRUE>> \in c.user_data THEN <<TRUE>>
         ELSE IF <<"subscribed", FALSE>> \in c.user_data THEN <<FALSE>>
         ELSE <<>>
    ELSE <<>>

call_repository(c) ==
    /\ dbcall.pc = "idle"
    /\ dbcall' = [pc |-> "running", call |-> c, outcomes |-> <<>>,
                  result |-> {}, error |-> {}]
    /\ UNCHANGED <<inboundVars, dailyVars, callVars, now, settings, outbound,
                   bcast>>

\* One attempt of the method's operation.  A session that works runs the
\* operation, which returns or raises; a session that fails raises and is
\* rolled back.  A retrying method attempts again after a transient fault,
\* up to the last attempt; otherwise the exception reaches the method's
\* except clause, which raises it again, or, in update_last_message,
\* returns False.
RepositoryAttempt(outcome) ==
    /\ dbcall.pc = "running"
    /\ outcome # "IntegrityError"
    /\ LET c == dbcall.call
           attempt_number == Len(dbcall.outcomes) + 1
           e == OperationOn(c, users, facts, now)
           raised == IF outcome = "ok" THEN e.error ELSE {outcome}
           x == CHOOSE exception \in raised : TRUE
           tried == [dbcall EXCEPT !.outcomes =
                       Append(@, IF raised = {} THEN "ok" ELSE x)]
       IN  IF raised = {}
           THEN /\ users' = e.users
                /\ facts' = e.facts
                /\ history' = IF c.phone = <<>> THEN history
                               ELSE [history EXCEPT ![c.phone] =
                                       @ \o Written(c, users)]
                /\ dbcall' = [tried EXCEPT !.pc = "returned",
                                           !.result = e.result]
           ELSE /\ UNCHANGED <<users, facts, history>>
                /\ dbcall' =
                     IF /\ Retrying(c.name)
                        /\ RetryIf(x)
                        /\ attempt_number < StopAfterAttempt
                     THEN tried
                     ELSE IF c.name = "update_last_message"
                     THEN [tried EXCEPT !.pc = "returned", !.result = FALSE]
                     ELSE [tried EXCEPT !.pc = "raised", !.error =
                             IF Retrying(c.name) /\ RetryIf(x)
                             THEN {"RetryError"} ELSE {x}]
    /\ UNCHANGED <<handlers, clock, runs, started, daily_sends, callVars,
                   now, settings, outbound, bcast>>

\* The methods whose operation commits and then refreshes the row.
Refreshing(c, us, fs) ==
    \/ c.name = "create_user" /\ ~PhoneTaken(us, c.phone)
    \/ c.name = "update_user" /\ PhoneTaken(us, c.phone)
    \/ c.name = "create_daily_fact" /\ ~FactTaken(fs, c.date, c.language)

\* One attempt in which session.commit() succeeds and session.refresh()
\* raises: the row is committed, the rollback of the session finds nothing
\* to undo, and the exception takes the way of any other exception of the
\* attempt.
RefreshFails(outcome) ==
    /\ dbcall.pc = "running"
    /\ outcome \notin {"ok", "IntegrityError"}
    /\ Refreshing(dbcall.call, users, facts)
    /\ LET c == dbcall.call
           attempt_number == Len(dbcall.outcomes) + 1
           e == OperationOn(c, users, facts, now)
           tried == [dbcall EXCEPT !.outcomes = Append(@, outcome)]
       IN  /\ users' = e.users
           /\ facts' = e.facts
           /\ history' = IF c.phone = <<>> THEN history
                          ELSE [history EXCEPT ![c.phone] =
                                  @ \o Written(c, users)]
           /\ dbcall' =
                IF /\ Retrying(c.name)
                   /\ RetryIf(outcome)
                   /\ attempt_number < StopAfterAttempt
                THEN tried
                ELSE [tried EXCEPT !.pc = "raised", !.error =
                        IF Retrying(c.name) /\ RetryIf(outcome)
                        THEN {"RetryError"} ELSE {outcome}]
    /\ UNCHANGED <<handlers, clock, runs, started, daily_sends, callVars,
                   now, settings, outbound, bcast>>

-----------------------------------------------------------------------------
(* WikipediaService.get_random_article *)

\* stop_after_attempt of _fetch_random_article_with_retry
FetchStopAfterAttempt == 5

\* What one execution of _fetch_random_article_with_retry meets: a random
\* page that is suitable, is not suitable or does not exist; an exception
\* of the client; or an exception that carries options, of which the one
\* picked is suitable, is not suitable, or cannot be fetched.
FetchOutcomes ==
    {"suitable", "unsuitable", "missing", "error", "options_suitable",
     "options_unsuitable", "options_error"}

\* What the execution raises ({} when it returns the article): every
\* exception leaves the method as UnsuitableArticleError.
FetchRaisesUnconverted(outcome) ==
    IF outcome \in {"suitable", "options_suitable"} THEN {}
    ELSE IF outcome = "error" THEN {"Exception"}
    ELSE {"UnsuitableArticleError"}
FetchRaises(outcome) ==
    IF outcome \in {"suitable", "options_suitable"} THEN {}
    ELSE {"UnsuitableArticleError"}

\* retry_if_exception_type(UnsuitableArticleError)
FetchRetryIf(exception) == exception = "UnsuitableArticleError"

\* The article of an execution that returns one.
Article(language, attempt_number) == <<"article", language, attempt_number>>

\* _generate_daily_fact_for_language calls get_random_article(language).
call_get_random_article(language) ==
    /\ wiki.pc \in {"idle", "returned"}
    /\ wiki' = [pc |-> "running", language |-> language, outcomes |-> <<>>,
                result |-> {}]
    /\ UNCHANGED <<inboundVars, dailyVars, serviceVars, admin, http>>

\* One execution of _fetch_random_article_with_retry and what the retry
\* decorator and the except clause of get_random_article do with it: the
\* article is returned; an UnsuitableArticleError leads to the next
\* execution, or, at the last one, to RetryError; an exception that
\* reaches get_random_article makes it return None.
FetchAttempt(outcome) ==
    /\ wiki.pc = "running"
    /\ LET attempt_number == Len(wiki.outcomes) + 1
           raised == FetchRaises(outcome)
           tried == [wiki EXCEPT !.outcomes = Append(@, outcome)]
       IN  wiki' =
             IF raised = {}
             THEN [tried EXCEPT !.pc = "returned",
                     !.result = {Article(wiki.language, attempt_number)}]
             ELSE IF /\ \A x \in raised : FetchRetryIf(x)
                     /\ attempt_number < FetchStopAfterAttempt
             THEN tried
             ELSE [tried EXCEPT !.pc = "returned", !.result = {}]
    /\ UNCHANGED <<inboundVars, dailyVars, serviceVars, admin, http>>

-----------------------------------------------------------------------------
(* /admin/broadcast: send_broadcast_message *)

\* broadcast_data.language: {} is None.
LanguageFilters == { {} } \cup { {l} : l \in LanguageSet }

\* The request up to the loop: the subscribed users, of one language or of
\* all; with no user the response is the error.  Requests follow one
\* another.
call_send_broadcast_message(language) ==
    /\ admin.pc \in {"idle", "responded"}
    /\ Len(outbound) < MaxSends
    /\ LET selected ==
             IF language # {}
             THEN get_subscribed_users_by_language(
                      users, CHOOSE l \in language : TRUE)
             ELSE SortById(get_all_subscribed_users(users))
       IN  admin' =
             IF selected = <<>>
             THEN [pc |-> "responded", users |-> selected, i |-> 1,
                   sent_count |-> 0, sends |-> <<>>, status |-> "error"]
             ELSE [pc |-> "sending", users |-> selected, i |-> 1,
                   sent_count |-> 0, sends |-> <<>>, status |-> ""]
    /\ UNCHANGED <<inboundVars, dailyVars, serviceVars, wiki, http>>

\* One round of the loop: send_message returns the sid, or None when the
\* client raised, and sent_count is incremented; after the last user the
\* response reports sent_count.
AdminSend(outcome) ==
    /\ admin.pc = "sending"
    /\ LET user == admin.users[admin.i]
           sent == send_message(user.phone, "DAILY_FACT", {}, outcome = "sid")
           counted == [admin EXCEPT !.sends = Append(@, sent),
                                    !.sent_count = @ + 1,
                                    !.i = @ + 1]
       IN  /\ outbound' = Append(outbound, sent)
           /\ admin' = IF admin.i < Len(admin.users) THEN counted
                       ELSE [counted EXCEPT !.pc = "responded",
                                            !.status = "success"]
    /\ UNCHANGED <<inboundVars, dailyVars, wiki, http, now, settings, bcast,
                   dbcall>>

-----------------------------------------------------------------------------
(* The services at rest *)

NoBroadcast == [pc |-> "idle"]

\* No content-source call and no /admin/broadcast request in progress.
NoFetch == [pc |-> "idle"]
NoRequest == [pc |-> "idle"]

CallsIdle ==
    /\ wiki = NoFetch
    /\ admin = NoRequest
    /\ http = {}

ServiceIdle ==
    /\ CallsIdle
    /\ now = 0
    /\ settings = [is_sandbox |-> FALSE, has_templates |-> FALSE]
    /\ outbound = <<>>
    /\ bcast = NoBroadcast
    /\ dbcall = NoCall

-----------------------------------------------------------------------------
(* Specifications *)

InitHistory(store) ==
    [p \in Phones |->
        LET found == get_user_by_phone(store, p)
        IN  IF found = {} THEN <<>>
            ELSE <<(CHOOSE u \in found : TRUE).subscribed>>]

Init ==
    /\ users \in InitialStores
    /\ history = InitHistory(users)
    /\ handlers = EmptyBag
    /\ facts = {}
    /\ clock = 0
    /\ runs = [t \in Triggers |-> IdleRun]
    /\ started = 0
    /\ daily_sends = EmptyBag
    /\ ServiceIdle

\* The production job on 1 January 2024, over a table that may hold facts
\* of 30 November 2023.
OldFacts ==
    {DailyFact(DateOf(0), l, Summary("cron", l)) : l \in LanguageSet}

InitDaily ==
    /\ users \in InitialStores
    /\ history = InitHistory(users)
    /\ handlers = EmptyBag
    /\ facts \in SUBSET OldFacts
    /\ clock = 1
    /\ runs = [t \in Triggers |-> IdleRun]
    /\ started = 0
    /\ daily_sends = EmptyBag
    /\ ServiceIdle

\* The send path for one recipient, at any of the times and settings.
InitSend ==
    /\ \E last \in LastMessageValues :
          users = {[User(1, <<"+15551230000">>, TRUE, "ENGLISH")
                      EXCEPT !.last_message_at = last]}
    /\ history = InitHistory(users)
    /\ handlers = EmptyBag
    /\ facts = {}
    /\ clock = 0
    /\ runs = [t \in Triggers |-> IdleRun]
    /\ started = 0
    /\ daily_sends = EmptyBag
    /\ now \in NowValues
    /\ settings \in [is_sandbox : BOOLEAN, has_templates : BOOLEAN]
    /\ outbound = <<>>
    /\ bcast = NoBroadcast
    /\ dbcall = NoCall
    /\ CallsIdle

SendNext ==
    \/ \E u \in users, with_user \in BOOLEAN, accepted \in BOOLEAN :
          call_send_message(u, with_user, accepted)
    \/ \E u \in users, accepted \in BOOLEAN : call_send_daily_fact(u, accepted)

SpecSend == InitSend /\ [][SendNext]_vars

\* The arguments of a broadcast: a list for any of the languages, of
\* MaxUsers users in all, and a fact for any of the languages.
ListLengths ==
    { n \in [LanguageSet -> 0..MaxUsers] :
        n["ENGLISH"] + n["HEBREW"] <= MaxUsers }

BroadcastArguments ==
    { broadcast_daily_facts(
          [l \in keys |-> UserList(l, n[l])], facts_by_language) :
        keys \in SUBSET LanguageSet, n \in ListLengths,
        facts_by_language \in SUBSET LanguageSet }

InitBroadcast ==
    /\ users = {}
    /\ history = InitHistory(users)
    /\ handlers = EmptyBag
    /\ facts = {}
    /\ clock = 0
    /\ runs = [t \in Triggers |-> IdleRun]
    /\ started = 0
    /\ daily_sends = EmptyBag
    /\ now = 0
    /\ settings = [is_sandbox |-> FALSE, has_templates |-> FALSE]
    /\ outbound = <<>>
    /\ bcast \in BroadcastArguments
    /\ dbcall = NoCall
    /\ CallsIdle

BroadcastNext ==
    \/ BroadcastLanguage
    \/ BroadcastBatch
    \/ \E outcome \in SendOutcomes : Settle(outcome)
    \/ GatherReturns

SpecBroadcast == InitBroadcast /\ [][BroadcastNext]_vars

\* The event loop keeps running the tasks, and every call of the Twilio
\* client returns or raises.
SpecBroadcastLive == SpecBroadcast /\ WF_vars(BroadcastNext)

RetryNext ==
    \/ \E operation \in Operations : call_execute_with_retry(operation)
    \/ \E outcome \in AttemptOutcomes : Attempt(outcome)

\* The database client with no call in progress.
InitRetry ==
    /\ users = {}
    /\ history = InitHistory(users)
    /\ handlers = EmptyBag
    /\ facts = {}
    /\ clock = 0
    /\ runs = [t \in Triggers |-> IdleRun]
    /\ started = 0
    /\ daily_sends = EmptyBag
    /\ ServiceIdle

SpecRetry == InitRetry /\ [][RetryNext]_vars

\* The weekly cleanup on 30 November 2023 or on the first day of a month
\* of 2024, over a table that holds the fact of 30 September 2023 and any
\* of the facts of the days around the cutoffs.
CleanupDates ==
    {Date(2023, 9, 30), Date(2023, 10, 1), Date(2023, 10, 31),
     Date(2023, 11, 1), Date(2023, 11, 30), Date(2023, 12, 1),
     Date(2023, 12, 31), Date(2024, 1, 1), Date(2024, 1, 31),
     Date(2024, 2, 1)}

CleanupFacts ==
    {DailyFact(d, "ENGLISH", Summary("cron", "ENGLISH")) : d \in CleanupDates}

InitCleanup ==
    /\ users = {}
    /\ history = InitHistory(users)
    /\ handlers = EmptyBag
    /\ facts \in {table \in SUBSET CleanupFacts :
                     \E f \in table : f.date = Date(2023, 9, 30)}
    /\ clock \in 0..(MaxDay + 1)
    /\ runs = [t \in Triggers |-> IdleRun]
    /\ started = 0
    /\ daily_sends = EmptyBag
    /\ ServiceIdle

CleanupNext == cleanup_old_data

SpecCleanup == InitCleanup /\ [][CleanupNext]_vars

\* The operations that read or write the users table, one part of the
\* application at a time: the inbound events with the runs of the day over
\* and no repository call to come; the production job and the cleanup after
\* MaxEvents rejected events; or one call of a repository method.
RejectedEvents ==
    [h \in {Handler(<<>>, <<>>, "rejected", 400)} |-> MaxEvents]

FinishedCall(store) ==
    [pc |-> "returned",
     call |-> RepositoryCall("get_all_subscribed_users", <<>>, {}, "ENGLISH",
                             DateOf(0)),
     outcomes |-> <<"ok">>, result |-> get_all_subscribed_users(store),
     error |-> {}]

InitLifecycle ==
    /\ users \in InitialStores
    /\ history = InitHistory(users)
    /\ runs = [t \in Triggers |-> IdleRun]
    /\ daily_sends = EmptyBag
    /\ CallsIdle
    /\ settings = [is_sandbox |-> FALSE, has_templates |-> FALSE]
    /\ outbound = <<>>
    /\ bcast = NoBroadcast
    /\ \/ /\ handlers = EmptyBag
          /\ facts = {}
          /\ clock = 0
          /\ started = MaxRuns
          /\ now = 0
          /\ dbcall = FinishedCall(users)
       \/ /\ handlers = RejectedEvents
          /\ facts \in SUBSET OldFacts
          /\ clock = 1
          /\ started = 0
          /\ now = 0
          /\ dbcall = FinishedCall(users)
       \/ /\ handlers = RejectedEvents
          /\ facts \in SUBSET OldFacts
          /\ clock = 1
          /\ started = MaxRuns
          /\ now = 60
          /\ dbcall = NoCall

\* The webhook for one request: a sender with no prefix, with one or with
\* two, or the prefix alone, and any of the bodies.
WebhookFromValues ==
    FromValues \cup { <<"whatsapp:", "whatsapp:">> \o p : p \in Phones }
               \cup { <<"whatsapp:", "whatsapp:">> }

WebhookRequests ==
    [From : WebhookFromValues, Body : BodyValues]

InitWebhook ==
    /\ users \in InitialStores
    /\ history = InitHistory(users)
    /\ handlers = EmptyBag
    /\ facts = {}
    /\ clock = 0
    /\ runs = [t \in Triggers |-> IdleRun]
    /\ started = 0
    /\ daily_sends = EmptyBag
    /\ now = 0
    /\ settings = [is_sandbox |-> FALSE, has_templates |-> FALSE]
    /\ outbound = <<>>
    /\ bcast = NoBroadcast
    /\ dbcall = NoCall
    /\ wiki = NoFetch
    /\ admin = NoRequest
    /\ http \in {{r} : r \in WebhookRequests}

WebhookNext == receive_whatsapp_webhook

SpecWebhook == InitWebhook /\ [][WebhookNext]_vars

AdminNext ==
    \/ \E language \in LanguageFilters : call_send_broadcast_message(language)
    \/ \E outcome \in SendOutcomes : AdminSend(outcome)

SpecAdmin == Init /\ [][AdminNext]_vars

WikiNext ==
    \/ \E language \in LanguageSet : call_get_random_article(language)
    \/ \E outcome \in FetchOutcomes : FetchAttempt(outcome)

SpecWiki == InitRetry /\ [][WikiNext]_vars

RepositoryNext ==
    \/ \E c \in RepositoryCalls : call_repository(c)
    \/ \E outcome \in AttemptOutcomes : RepositoryAttempt(outcome)

\* The repositories over any of the initial user tables and a facts table
\* that may hold facts of 30 November 2023, one minute after the rows of
\* the user table were created.
InitRepository ==
    /\ users \in InitialStores
    /\ history = InitHistory(users)
    /\ handlers = EmptyBag
    /\ facts \in SUBSET OldFacts
    /\ clock = 1
    /\ runs = [t \in Triggers |-> IdleRun]
    /\ started = 0
    /\ daily_sends = EmptyBag
    /\ CallsIdle
    /\ now = 60
    /\ settings = [is_sandbox |-> FALSE, has_templates |-> FALSE]
    /\ outbound = <<>>
    /\ bcast = NoBroadcast
    /\ dbcall = NoCall

SpecRepository == InitRepository /\ [][RepositoryNext]_vars

InboundNext ==
    \/ \E From \in FromValues, Body \in BodyValues : whatsapp_webhook(From, Body)
    \/ \E h \in HandlerSet : Lookup(h)
    \/ \E h \in HandlerSet : Create(h)
    \/ \E h \in HandlerSet : Number(h)
    \/ \E h \in HandlerSet : SubMenu(h)

SpecInbound == Init /\ [][InboundNext]_vars

ToggleNext ==
    \/ \E p \in Phones, n \in SubMenuNumbers : call_handle_sub_menu_response(p, n)
    \/ \E h \in HandlerSet : SubMenu(h)

SpecToggle == Init /\ [][ToggleNext]_vars

DailyNext ==
    \/ \E t \in Triggers : StartRun(t)
    \/ \E t \in Triggers : CheckExisting(t)
    \/ \E t \in Triggers, outcome \in GenerationOutcomes : Generate(t, outcome)
    \/ \E t \in Triggers : LoadUsers(t)
    \/ \E t \in Triggers, accepted \in SUBSET Phones : Broadcast(t, accepted)
    \/ cleanup_old_data

SpecDaily == InitDaily /\ [][DailyNext]_vars

\* The daily job with a store that may fail in the refresh that follows the
\* commit of a new fact.
DailyFaultsNext ==
    \/ DailyNext
    \/ \E t \in Triggers : GenerateRefreshFails(t)

SpecDailyFaults == InitDaily /\ [][DailyFaultsNext]_vars

\* The production job with the texts of the summarizer: texts at the
\* limits of every test of _validate_summary, for both languages.
Repeat(c, n) == [i \in 1..n |-> c]

\* One sentence of n characters.
Sentence(n) == Repeat("a", n - 1) \o <<".">>

SummaryTexts ==
    { <<>>,
      <<" ", " ">>,
      Sentence(49), Sentence(50), Sentence(400), Sentence(401),
      <<" ">> \o Sentence(49),
      <<" ">> \o Sentence(400) \o <<" ">>,
      Repeat(".", 50),
      Repeat("a", 50),
      <<"a", ".", "a", ".", "a", ".", "a", ".">> \o Sentence(42),
      <<"a", ".", "a", ".", "a", ".", "a", ".", "a", ".">> \o Sentence(40),
      <<"A", "S", " ", "a", "n", " ", "a", "i", " ">> \o Sentence(41),
      Repeat("alef", 20) \o <<" ", "kaf", "bet", "vav", "tet", " ", "a", "I">>
          \o Sentence(22),
      Repeat("alef", 15) \o Sentence(35),
      Repeat("alef", 14) \o Sentence(36) }

SummarizerResponses ==
    {Response(TRUE, <<>>), Response(FALSE, <<>>)}
        \cup {Response(FALSE, <<text>>) : text \in SummaryTexts}

Articles == { {}, {<<"article">>} }

\* 1 January 2024; one subscribed user of each language; the table may
\* hold validated facts of 30 November 2023.
SummaryUsers ==
    { User(1, <<"+15551230000">>, TRUE, "ENGLISH"),
      User(2, <<"+15551230001">>, TRUE, "HEBREW") }

OldTexts ==
    {DailyFact(DateOf(0), l, Repeat("alef", 15) \o Sentence(35)) :
        l \in LanguageSet}

InitSummary ==
    /\ users = SummaryUsers
    /\ history = InitHistory(users)
    /\ handlers = EmptyBag
    /\ facts \in {{}, OldTexts}
    /\ clock = 1
    /\ runs = [t \in Triggers |-> IdleRun]
    /\ started = 0
    /\ daily_sends = EmptyBag
    /\ ServiceIdle

\* The runs of the scheduler's cron job, one after the other.
SummaryNext ==
    \/ StartRun("cron")
    \/ CheckExisting("cron")
    \/ \E article \in Articles, response \in SummarizerResponses :
          GenerateText("cron", article, response)
    \/ LoadUsers("cron")
    \/ \E accepted \in SUBSET Phones : Broadcast("cron", accepted)

SpecSummary == InitSummary /\ [][SummaryNext]_vars

\* The sub-menu handler with the outcomes of its update_user, next to
\* deletions of rows.
OrderingNext ==
    \/ \E p \in Phones, n \in SubMenuNumbers : call_handle_sub_menu_response(p, n)
    \/ \E h \in HandlerSet : SubMenu(h)
    \/ \E h \in HandlerSet : SubMenuRaised(h)
    \/ \E p \in Phones : call_delete_user(p)

SpecOrdering == Init /\ [][OrderingNext]_vars

\* The fan-out: the production job over any of the initial stores, or
\* broadcast_daily_facts called with any of its arguments.
InitFanout ==
    /\ \/ /\ users \in InitialStores
          /\ facts \in SUBSET OldFacts
          /\ clock = 1
          /\ started = 0
          /\ bcast = NoBroadcast
       \/ /\ users = {}
          /\ facts = {}
          /\ clock = 0
          /\ started = MaxRuns
          /\ bcast \in BroadcastArguments
    /\ history = InitHistory(users)
    /\ handlers = EmptyBag
    /\ runs = [t \in Triggers |-> IdleRun]
    /\ daily_sends = EmptyBag
    /\ CallsIdle
    /\ now = 0
    /\ settings = [is_sandbox |-> FALSE, has_templates |-> FALSE]
    /\ outbound = <<>>
    /\ dbcall = NoCall

FanoutNext == DailyNext \/ BroadcastNext

SpecFanout == InitFanout /\ [][FanoutNext]_vars

\* The runs of the two triggers in one event loop.
EventLoopNext ==
    \/ \E t \in Triggers, outcomes \in [LanguageSet -> GenerationOutcomes] :
          RunUntilBroadcast(t, outcomes)
    \/ \E t \in Triggers, accepted \in SUBSET Phones : Broadcast(t, accepted)

SpecEventLoop == InitDaily /\ [][EventLoopNext]_vars

\* The repository methods with the faults of the session and of the
\* refresh that follows a commit.
WritesNext ==
    \/ RepositoryNext
    \/ \E outcome \in AttemptOutcomes : RefreshFails(outcome)

SpecWrites == InitRepository /\ [][WritesNext]_vars

LifecycleNext == InboundNext \/ ToggleNext \/ DailyNext \/ RepositoryNext

SpecLifecycle == InitLifecycle /\ [][LifecycleNext]_vars

Next ==
    \/ InboundNext \/ DailyNext \/ Tick \/ SendNext \/ BroadcastNext
    \/ RetryNext \/ RepositoryNext \/ WikiNext \/ AdminNext \/ WebhookNext

Spec == Init /\ [][Next]_vars

-----------------------------------------------------------------------------
(* Properties of the inbound router *)

\* The handlers that finished an event of a recipient who existed at lookup
\* and at the fresh lookup of the numeric handler.
DoneExisting ==
    {h \in HandlerSet : h.pc = "done" /\ ~h.first_contact /\ h.user # {}}

SnapshotOf(h) == CHOOSE u \in h.user : TRUE

\* The value of subscribed the store holds for the handler's phone equals
\* the one the handler read.
SubscribedUntouched(h) ==
    \A u \in get_user_by_phone(users, h.phone) :
        u.subscribed = SnapshotOf(h).subscribed

TrimmedText(h) == strip(h.body)

IsDecimalText(t) == t # <<>> /\ \A i \in 1..Len(t) : t[i] \in DecimalChars

RowsOf(phone) == {u \in users : u.phone = phone}

FirstContacts(phone) ==
    {h \in HandlerSet : h.first_contact /\ h.phone = phone}

RECURSIVE CopiesOf(_)
CopiesOf(hs) ==
    IF hs = {} THEN 0
    ELSE LET h == CHOOSE x \in hs : TRUE
         IN  CopiesIn(h, handlers) + CopiesOf(hs \ {h})

\* C5: when two first-contact events of one unseen address were both looked
\* up before either created the recipient, exactly one row results and both
\* events end with a reply, neither in the error path.
C5_RaceBothReplied ==
    \A p \in Phones :
        (/\ CopiesOf(FirstContacts(p)) >= 2
         /\ \A h \in FirstContacts(p) : h.pc = "done")
        => /\ Cardinality(RowsOf(p)) = 1
           /\ \A h \in FirstContacts(p) : ~h.error /\ h.replies # <<>>

\* C6: an event from an address with no recipient creates exactly one
\* recipient with subscribed = true, sends the main menu, and returns without
\* classifying its text.
C6_FirstContact ==
    \A h \in HandlerSet :
        (h.first_contact /\ h.pc = "done")
        => /\ ~h.error
           /\ h.number = <<>>
           /\ Len(h.replies) = 1
           /\ h.replies[1].kind = "main_menu"
           /\ h.replies[1].to = h.phone
           /\ Cardinality(RowsOf(h.phone)) = 1
           /\ \A u \in RowsOf(h.phone) : u.subscribed

C8_FreeTextShowsMenu ==
    \A h \in DoneExisting :
        ~IsDecimalText(TrimmedText(h))
        => /\ h.replies =
                <<send_main_menu(h.phone, SnapshotOf(h).language)>>
           /\ SubscribedUntouched(h)

C8_Witness ==
    /\ \E h \in DoneExisting : TrimmedText(h) = <<>>
    /\ \E h \in DoneExisting : TrimmedText(h) = <<"a", "b", "c">>

C11_LastInboundTracked ==
    \A h \in DoneExisting :
        \A u \in RowsOf(h.phone) : u.last_message_at # {}

\* C18: an event with a sender is answered 200 when it is received, an
\* event without one 400 and is not processed; an exception raised while
\* an event is processed ends the processing and leaves the answer as it
\* was.
C18_AcknowledgedBeforeProcessing ==
    \A h \in HandlerSet :
        /\ h.phone # <<>> => h.status = 200
        /\ h.phone = <<>> => h.status = 400 /\ h.pc = "rejected"
        /\ h.error => h.pc = "done" /\ h.status = 200

\* The processing of an event ended in the except clause.
C18_Witness ==
    \E h \in HandlerSet :
        h.phone # <<>> /\ h.error /\ h.pc = "done" /\ h.status = 200

\* C19: every processed event of a sender has led to a reply to the sender.
C19_BestEffortReply ==
    \A h \in HandlerSet :
        (h.phone # <<>> /\ h.pc = "done")
        => \E k \in 1..Len(h.replies) : h.replies[k].to = h.phone

\* The sender of a request without one leading prefix.
SenderOf(r) ==
    IF Len(r.From) > 0 /\ r.From[1] = "whatsapp:"
    THEN SubSeq(r.From, 2, Len(r.From)) ELSE r.From

\* The text of a request: none when the body is missing.
TextOf(r) == IF r.Body = {} THEN <<>> ELSE strip(CHOOSE t \in r.Body : TRUE)

C30_Decoded ==
    /\ \A r \in http : \A h \in HandlerSet :
          /\ h.phone = SenderOf(r)
          /\ h.body = TextOf(r)
          /\ SenderOf(r) = <<>> => h.pc = "rejected" /\ h.status = 400
          /\ SenderOf(r) # <<>> => h.pc = "queued" /\ h.status = 200
    /\ \A p \in Phones :
          get_user_by_phone(users, StripPrefix(<<"whatsapp:">> \o p)) =
              get_user_by_phone(users, StripPrefix(p))

C30_OneTask ==
    handlers' # handlers =>
        BagCardinality(handlers') = BagCardinality(handlers) + 1

\* C30: the webhook takes one leading "whatsapp:" off the sender and reads
\* a missing body as the empty text; an empty sender is answered with 400
\* and nothing is scheduled for it; any other request is answered with 200
\* and one task is scheduled for it; a sender with the prefix and the same
\* sender without it are looked up as the same user.
C30_WebhookDecoding == []C30_Decoded /\ [][C30_OneTask]_vars

\* A request with a doubled prefix and no body was delivered twice.
C30_Witness ==
    \E r \in http : \E h \in HandlerSet :
        /\ Len(r.From) = 3
        /\ r.Body = {}
        /\ h.phone = <<"whatsapp:">> \o SubSeq(r.From, 3, 3)
        /\ h.pc = "queued"
        /\ BagCardinality(handlers) = 2

-----------------------------------------------------------------------------
(* Properties of the toggle flow of handle_sub_menu_response *)

DoneToggles ==
    {h \in HandlerSet : h.pc = "done" /\ h.number = <<"1">>}

\* h2 read the store right after h1 wrote it, and no other write fell
\* between either handler's read and its write.
OneAfterTheOther(h1, h2) ==
    /\ h1.phone = h2.phone
    /\ h1.at1 = h1.at0 + 1
    /\ h2.at0 = h1.at1
    /\ h2.at1 = h2.at0 + 1

\* C9: the toggle writes the negation of the subscribed value it read, the
\* confirmation carries the value written (false: unsubscribed, true:
\* subscribed), and two toggles one after the other restore the original.
C9_ToggleIsFlip ==
    /\ \A h \in DoneToggles :
          LET u == SnapshotOf(h)
          IN  /\ history[h.phone][h.at1] = ~u.subscribed
              /\ h.replies = <<send_subscription_changed_message(
                     h.phone, history[h.phone][h.at1], u.language)>>
    /\ \A h1, h2 \in DoneToggles :
          OneAfterTheOther(h1, h2)
          => history[h1.phone][h2.at1] = history[h1.phone][h1.at0]

C9_Witness ==
    \E h1, h2 \in DoneToggles :
        /\ OneAfterTheOther(h1, h2)
        /\ SnapshotOf(h1).subscribed
        /\ ~SnapshotOf(h2).subscribed

-----------------------------------------------------------------------------
(* Properties of the daily production job *)

FactsFor(date, language) ==
    {f \in facts : f.date = date /\ f.language = language}

PersistedSummary(date, language) ==
    {f.summary : f \in FactsFor(date, language)}

\* Step 2 of the run is over: facts_to_send is what the run will broadcast.
AfterGenerate(t) == runs[t].pc \in {"load", "broadcast"}

\* The daily-fact messages of one day that the channel accepted for a phone.
SendsTo(date, phone) ==
    LET mine == {m \in BagToSet(daily_sends) : m.date = date /\ m.to = phone}
    IN  BagCardinality([m \in mine |-> daily_sends[m]])

\* C1: a run that begins when the fact of its day is persisted for a
\* language leaves exactly one fact for that day and language, calls
\* neither the content source nor the summarizer for the language, and
\* broadcasts the persisted summary.
C1_IdempotentProduction ==
    \A t \in Triggers : \A l \in runs[t].had :
        /\ Cardinality(FactsFor(runs[t].today, l)) = 1
        /\ runs[t].wiki_calls[l] = 0
        /\ runs[t].ai_calls[l] = 0
        /\ AfterGenerate(t) =>
              runs[t].facts_to_send[l] = PersistedSummary(runs[t].today, l)

\* A second run of the day, begun after the first one ended, is about to
\* broadcast a fact that the first one persisted.
C1_Witness ==
    \E t \in Triggers :
        /\ started = 2
        /\ \A o \in Triggers \ {t} : runs[o].pc = "idle"
        /\ runs[t].pc = "broadcast"
        /\ runs[t].had = LanguageSet
        /\ \A l \in LanguageSet : runs[t].facts_to_send[l] # {}

\* C2: over the runs of one day, a phone is sent the daily fact at most
\* once.
C2_AtMostOneDailySend ==
    \A m \in BagToSet(daily_sends) : SendsTo(m.date, m.to) <= 1

\* C3: the table holds at most one fact per (date, language).
C3_ArtifactUniqueness ==
    \A f \in facts, g \in facts :
        f.date = g.date /\ f.language = g.language => f = g

\* Two runs generated a fact for the same day and language, and the insert
\* of the later one was refused.
C3_Witness ==
    \E t \in Triggers : \E l \in runs[t].conflicts :
        /\ FactsFor(runs[t].today, l) # {}
        /\ PersistedSummary(runs[t].today, l) # {Summary(t, l)}

\* C4: a run whose insert was refused by the unique index does not count
\* the language as failed and broadcasts the persisted fact.
C4_ConflictIsAlreadyProduced ==
    \A t \in Triggers : \A l \in runs[t].conflicts :
        /\ l \notin runs[t].failed
        /\ AfterGenerate(t) =>
              runs[t].facts_to_send[l] = PersistedSummary(runs[t].today, l)

\* C17: a run lists exactly the users that are subscribed when it loads
\* its lists (of the languages that have a fact); the daily fact goes to
\* subscribed users only, in their language, and to nobody when no user is
\* subscribed.
C17_OnlySubscribedTargeted ==
    /\ \A t \in Triggers :
          runs[t].pc = "broadcast" =>
              Listed(runs[t].users_by_language) =
                  {u \in users : /\ u.subscribed
                                 /\ runs[t].facts_to_send[u.language] # {}}
    /\ \A m \in BagToSet(daily_sends) :
          \E u \in users :
              u.phone = m.to /\ u.language = m.language /\ u.subscribed
    /\ (\A u \in users : ~u.subscribed) => daily_sends = EmptyBag

\* The runs of the day are over: the facts of both languages are
\* persisted, the subscribed user was sent the fact and the unsubscribed
\* one was not.
C17_Witness ==
    /\ \A t \in Triggers : runs[t].pc = "idle"
    /\ \E u \in users, v \in users :
          /\ u.subscribed /\ ~v.subscribed
          /\ FactsFor(DateOf(clock), u.language) # {}
          /\ FactsFor(DateOf(clock), v.language) # {}
          /\ SendsTo(DateOf(clock), u.phone) >= 1
          /\ SendsTo(DateOf(clock), v.phone) = 0

\* The facts of today that carry the summary the summarizer gave to run t.
PersistedBy(t, l) ==
    {f \in FactsFor(runs[t].today, l) : f.summary = Summary(t, l)}

\* The summarizer was called for l and its output was not valid.
ValidationFailed(t, l) ==
    /\ l \in runs[t].failed
    /\ l \notin runs[t].conflicts
    /\ runs[t].ai_calls[l] > 0

\* C24: in one run the summarizer and the content source are called once
\* at most per language; when the output of the summarizer fails validation
\* the language has failed, neither is called again for it, and the run
\* persists nothing and has nothing to send for it.
C24_NoRegeneration ==
    \A t \in Triggers : \A l \in LanguageSet :
        /\ runs[t].ai_calls[l] <= 1
        /\ runs[t].wiki_calls[l] <= 1
        /\ ValidationFailed(t, l) =>
              /\ runs[t].ai_calls[l] = 1
              /\ runs[t].wiki_calls[l] = 1
              /\ runs[t].facts_to_send[l] = {}
              /\ PersistedBy(t, l) = {}

\* A run is about to broadcast after the summary of one language failed
\* validation and the one of the other language was persisted.
C24_Witness ==
    \E t \in Triggers : \E l, m \in LanguageSet :
        /\ runs[t].pc = "broadcast"
        /\ ValidationFailed(t, l)
        /\ runs[t].ai_calls[m] = 1
        /\ PersistedBy(t, m) # {}

\* The daily-fact messages a step hands to the channel.
NewSends == BagToSet(daily_sends' (-) daily_sends)

C25_Persisted ==
    /\ \A m \in BagToSet(daily_sends) :
          {m.summary} = PersistedSummary(m.date, m.language)
    /\ \A t \in Triggers : \A l \in LanguageSet :
          /\ (AfterGenerate(t) /\ runs[t].facts_to_send[l] # {}) =>
                runs[t].facts_to_send[l] = PersistedSummary(runs[t].today, l)
          /\ l \in runs[t].failed =>
                /\ runs[t].facts_to_send[l] = {}
                /\ PersistedBy(t, l) = {}
          /\ (AfterGenerate(t) /\ runs[t].existing_facts[l] = {}) =>
                runs[t].wiki_calls[l] = 1

C25_Sent ==
    \A t \in Triggers :
        (runs[t].pc = "broadcast" /\ runs'[t].pc = "idle") =>
            \A m \in NewSends :
                /\ m.language \notin runs[t].failed
                /\ {m.summary} = runs[t].facts_to_send[m.language]

\* C25: a summary is sent for (date, language) only if a fact that carries
\* it was persisted for (date, language) before the broadcast began; for a
\* language whose fetch, summary or insert failed, the run has persisted
\* no fact and sends nothing; a run that finds no fact of today for a
\* language goes through the generation for it.
C25_NoPartialData == []C25_Persisted /\ [][C25_Sent]_vars

\* The months counted from year 0.
MonthOf(date) == date.year * 12 + date.month

Today == DateOf(clock)

-----------------------------------------------------------------------------
(* Properties of the send path *)

RowOf(m) == CHOOSE u \in users : u.phone = m.to

Sent == {outbound[k] : k \in 1..Len(outbound)}

\* The time between the recipient's last message and a send_message call.
SinceLastMessage(m) == m.at - (CHOOSE x \in RowOf(m).last_message_at : TRUE)

\* C12: is_in_session_window is true exactly when last_message_at is set
\* and less than 24 hours before now: true at 23h59m, false at 24h00m and
\* at 24h01m, false when last_message_at is None.
C12_SessionWindow ==
    \A m \in Sent : \A u \in m.user :
        /\ m.in_window =
              {u.last_message_at # {} /\ SinceLastMessage(m) < 86400}
        /\ u.last_message_at = {} => m.in_window = {FALSE}
        /\ u.last_message_at # {} =>
              /\ SinceLastMessage(m) = 86340 => m.in_window = {TRUE}
              /\ SinceLastMessage(m) = 86400 => m.in_window = {FALSE}
              /\ SinceLastMessage(m) = 86460 => m.in_window = {FALSE}

\* The window was evaluated at exactly 24 hours.
C12_Witness ==
    \E m \in Sent : \E u \in m.user :
        /\ u.last_message_at # {}
        /\ SinceLastMessage(m) = 86400
        /\ m.in_window = {FALSE}

\* C13: a send goes out free-form only when the recipient is inside the
\* session window and the channel is not in sandbox mode.
C13_DeliveryMode ==
    \A m \in Sent :
        m.mode = "freeform" =>
            /\ is_in_session_window(RowOf(m), m.at)
            /\ ~settings.is_sandbox

\* The sends of the request for which send_message returned a sid.
Handles == {k \in 1..Len(admin.sends) : admin.sends[k].external_id # {}}

\* C27: the sent count that /admin/broadcast reports is the number of
\* recipients whose send returned a delivery handle, and every selected
\* recipient was sent to, whatever the outcome of the sends before.
C27_SentCountsHandles ==
    (admin.pc = "responded" /\ admin.status = "success") =>
        /\ admin.sent_count = Cardinality(Handles)
        /\ Len(admin.sends) = Len(admin.users)
        /\ \A k \in 1..Len(admin.users) :
              admin.sends[k].to = admin.users[k].phone

-----------------------------------------------------------------------------
(* Properties of the broadcaster *)

\* The users of the lists of the languages that have a fact.
Targets ==
    UNION { {bcast.users_by_language[l][k] :
                k \in 1..Len(bcast.users_by_language[l])} :
            l \in DOMAIN bcast.users_by_language \cap bcast.facts_by_language }

RECURSIVE Total(_)
\* sum(send_results.values())
Total(results) ==
    IF DOMAIN results = {} THEN 0
    ELSE LET l == CHOOSE x \in DOMAIN results : TRUE
         IN  results[l] + Total([k \in DOMAIN results \ {l} |-> results[k]])

\* C14: when one send of a broadcast fails and every other one succeeds,
\* the broadcast returns, every user after the failed one is attempted,
\* and the number of sends reported is N - 1.
C14_PartialFailureIsolation ==
    (bcast.pc = "returned" /\ Cardinality(bcast.failed) = 1)
    => /\ BagToSet(bcast.attempted) = Targets
       /\ bcast.settled = Targets
       /\ Total(bcast.results) = Cardinality(Targets) - 1

\* A broadcast over a list of more than one batch has returned; a send of
\* the first batch failed, with users after it in its batch and in the
\* next one.
C14_Witness ==
    /\ bcast.pc = "returned"
    /\ \E l \in DOMAIN bcast.users_by_language :
          /\ Len(bcast.users_by_language[l]) > BatchSize
          /\ bcast.failed = {Recipient(l, 2)}
          /\ Recipient(l, BatchSize + 1) \in bcast.delivered

\* C15: the sends in flight are consecutive users of one list, all of one
\* batch of at most 10 that begins at a multiple of 10; every user before
\* the batch has been sent to and the send has ended, and no user after
\* the batch has been sent to.
C15_BatchOrdering ==
    /\ Cardinality(bcast.in_flight) <= 10
    /\ bcast.pc \in {"batch", "gather"} =>
          LET language == Languages[bcast.li]
              users_ == bcast.users_by_language[language]
              begun == {k \in 1..Len(users_) :
                          users_[k] \in BagToSet(bcast.attempted)}
              ended == {k \in 1..Len(users_) : users_[k] \in bcast.settled}
          IN  /\ bcast.i % 10 = 0
              /\ bcast.in_flight \subseteq (bcast.i + 1)..(bcast.i + 10)
              /\ begun = ended \cup bcast.in_flight
              /\ \E m \in 0..Len(users_) : begun = 1..m
              /\ 1..Min(bcast.i, Len(users_)) \subseteq ended
              /\ bcast.in_flight # {} =>
                    \A k \in ended : \A j \in bcast.in_flight : k < j

\* The second batch of a list is in flight.
C15_Witness ==
    /\ bcast.pc = "gather"
    /\ bcast.i = BatchSize
    /\ bcast.in_flight # {}

\* C16: a broadcast returns; when it has returned no send is in flight,
\* every listed user of a language with a fact was sent to exactly once,
\* and the number of sends reported is the number of sends that returned a
\* message id, between 0 and N.
C16_Returned ==
    bcast.pc = "returned" =>
        /\ bcast.in_flight = {}
        /\ BagToSet(bcast.attempted) = Targets
        /\ \A u \in Targets : CopiesIn(u, bcast.attempted) = 1
        /\ bcast.settled = Targets
        /\ Total(bcast.results) = Cardinality(bcast.delivered)
        /\ Cardinality(bcast.delivered) + Cardinality(bcast.failed)
              = Cardinality(Targets)
        /\ Total(bcast.results) \in 0..Cardinality(Targets)

C16_CompleteAndTerminates == <>(bcast.pc = "returned") /\ []C16_Returned

\* A broadcast has returned over an empty list, or over a list that is no
\* multiple of 10, with a failed send.
C16_Witness ==
    /\ bcast.pc = "returned"
    /\ \E l \in DOMAIN bcast.users_by_language \cap bcast.facts_by_language :
          Len(bcast.users_by_language[l]) = 0
    /\ \E l \in DOMAIN bcast.users_by_language \cap bcast.facts_by_language :
          /\ Len(bcast.users_by_language[l]) % BatchSize # 0
          /\ \E u \in bcast.failed : u[1] = l

-----------------------------------------------------------------------------
(* Properties of the database client *)

Transient == {"OperationalError", "DisconnectionError"}

\* The outcomes of the attempts before the last one.
EarlierOutcomes ==
    {dbcall.outcomes[k] : k \in 1..(Len(dbcall.outcomes) - 1)}

LastOutcome == dbcall.outcomes[Len(dbcall.outcomes)]

\* C20: an operation is attempted 3 times at most, and again only after a
\* transient fault; the call returns the result of the first attempt that
\* succeeds, raises after 3 transient faults, and raises an error that is
\* not transient after the one attempt that met it.
C20_BoundedRetry ==
    dbcall.pc # "idle" =>
        /\ Len(dbcall.outcomes) <= 3
        /\ EarlierOutcomes \subseteq Transient
        /\ dbcall.pc = "running" =>
              /\ Len(dbcall.outcomes) < 3
              /\ \A k \in 1..Len(dbcall.outcomes) :
                    dbcall.outcomes[k] \in Transient
        /\ dbcall.pc = "returned" =>
              /\ LastOutcome = "ok"
              /\ dbcall.result =
                    {<<dbcall.operation.name, Len(dbcall.outcomes)>>}
              /\ dbcall.error = {}
        /\ dbcall.pc = "raised" =>
              /\ dbcall.result = {}
              /\ dbcall.error # {}
              /\ LastOutcome # "ok"
              /\ LastOutcome \in Transient => Len(dbcall.outcomes) = 3
              /\ LastOutcome \notin Transient => dbcall.error = {LastOutcome}
        /\ (dbcall.outcomes # <<>> /\ dbcall.outcomes[1] \notin Transient)
              => Len(dbcall.outcomes) = 1

\* A call met three transient faults and raised.
C20_Witness ==
    /\ dbcall.pc = "raised"
    /\ Len(dbcall.outcomes) = 3
    /\ \A k \in 1..3 : dbcall.outcomes[k] \in Transient

-----------------------------------------------------------------------------
(* Properties of the repositories *)

\* An attempt whose session worked.
AttemptWorked ==
    /\ dbcall.pc = "running"
    /\ dbcall'.pc # "idle"
    /\ dbcall'.outcomes = Append(dbcall.outcomes, "ok")

\* C21: get_user_by_phone and update_user on a phone with no row return
\* None, and update_last_message returns False: the attempt that finds no
\* row ends the call, nothing is raised, and no row is created or changed.
C21_NotFoundIsAValue ==
    [][ ( /\ AttemptWorked
          /\ dbcall.call.name \in {"get_user_by_phone", "update_user",
                                   "update_last_message"}
          /\ ~PhoneTaken(users, dbcall.call.phone) )
        => /\ dbcall'.pc = "returned"
           /\ dbcall'.error = {}
           /\ dbcall'.result =
                 IF dbcall.call.name = "update_last_message" THEN FALSE ELSE {}
           /\ users' = users
           /\ facts' = facts ]_vars

\* update_user returned None at its first attempt.
C21_Witness ==
    /\ dbcall.pc = "returned"
    /\ dbcall.call.name = "update_user"
    /\ dbcall.outcomes = <<"ok">>
    /\ dbcall.result = {}
    /\ ~PhoneTaken(users, dbcall.call.phone)

\* The value update_user was given for a field, or the one the row had.
Provided(user_data, field, old) ==
    IF \E item \in user_data : item[1] = field
    THEN (CHOOSE item \in user_data : item[1] = field)[2]
    ELSE old

C28_Unique == \A u, v \in users : u.phone = v.phone => u = v

C28_Frame ==
    ( /\ AttemptWorked
      /\ dbcall.call.name = "update_user"
      /\ \E u \in users : u.phone = dbcall.call.phone )
    => LET old == CHOOSE u \in users : u.phone = dbcall.call.phone
           new == CHOOSE u \in users' : u.phone = dbcall.call.phone
       IN  /\ users' \ {new} = users \ {old}
           /\ new.phone = old.phone
           /\ new.id = old.id
           /\ new.created_at = old.created_at
           /\ new.last_message_at = old.last_message_at
           /\ new.language = old.language
           /\ new.subscribed =
                 Provided(dbcall.call.user_data, "subscribed", old.subscribed)
           /\ new.updated_at = {now}
           /\ dbcall'.result = {new}

\* C28: no two rows of the users table have the same phone, and update_user
\* changes the fields it is given and updated_at, and nothing else: phone,
\* id, created_at and last_message_at stay, and so does every other row.
C28_AddressUniqueImmutable == []C28_Unique /\ [][C28_Frame]_vars

\* update_user with no field given returned the row with a new updated_at,
\* in a table of two rows.
C28_Witness ==
    /\ dbcall.pc = "returned"
    /\ dbcall.call.name = "update_user"
    /\ dbcall.call.user_data = {}
    /\ Cardinality(users) = 2
    /\ \E u \in users :
          /\ dbcall.result = {u}
          /\ u.updated_at = {now}
          /\ u.created_at # now

StoredPhones(store) == {u.phone : u \in store}

\* A step of delete_user that found the row.
ExplicitDelete ==
    /\ dbcall.pc = "running"
    /\ dbcall.call.name = "delete_user"
    /\ dbcall'.pc = "returned"
    /\ dbcall'.result = TRUE
    /\ StoredPhones(users') = StoredPhones(users) \ {dbcall.call.phone}

\* A step that writes FALSE to users.subscribed of a phone.
Unsubscribes(phone) == history'[phone] = Append(history[phone], FALSE)

C29_Kept ==
    /\ ExplicitDelete \/ StoredPhones(users) \subseteq StoredPhones(users')
    /\ \A u \in users :
          Unsubscribes(u.phone) =>
              [u EXCEPT !.subscribed = FALSE, !.updated_at = {now}] \in users'

\* C29: a step of an inbound event, of a subscription toggle, of a
\* production run with its broadcast, of the cleanup or of a repository
\* method other than delete_user removes no row of the users table, and a
\* step that unsubscribes a user keeps the row with subscribed = FALSE.
C29_NeverRemovedImplicitly == [][C29_Kept]_vars

\* A toggle has unsubscribed a user whose row is in the table.
C29_Witness ==
    \E h \in HandlerSet : \E u \in users :
        /\ h.pc = "done"
        /\ h.number = <<"1">>
        /\ h.at1 > 0
        /\ u.phone = h.phone
        /\ ~u.subscribed
        /\ history[u.phone][h.at1] = FALSE

\* C22: every store operation goes through the retrying wrapper: a call
\* whose first attempt met a transient connection fault attempts again.
C22_AllStoreAccessRetries ==
    ( /\ dbcall.pc # "idle"
      /\ Len(dbcall.outcomes) = 1
      /\ dbcall.outcomes[1] \in Transient )
    => dbcall.pc = "running"

-----------------------------------------------------------------------------
(* Properties of the content source *)

FetchFailed(k) == wiki.outcomes[k] \notin {"suitable", "options_suitable"}

\* C23: get_random_article makes 5 fetch attempts at most, a further one
\* only after an attempt that found no suitable article; it returns the
\* article of the first attempt that finds one, and None after 5 failed
\* attempts; it raises nothing and writes nothing to the store; every call
\* starts with no attempt made.
C23_Fetch ==
    wiki.pc # "idle" =>
        /\ Len(wiki.outcomes) <= 5
        /\ \A k \in 1..(Len(wiki.outcomes) - 1) : FetchFailed(k)
        /\ wiki.pc \in {"running", "returned"}
        /\ wiki.pc = "running" =>
              /\ Len(wiki.outcomes) < 5
              /\ \A k \in 1..Len(wiki.outcomes) : FetchFailed(k)
        /\ (wiki.pc = "returned" /\ wiki.result # {}) =>
              /\ ~FetchFailed(Len(wiki.outcomes))
              /\ wiki.result = {Article(wiki.language, Len(wiki.outcomes))}
        /\ (wiki.pc = "returned" /\ wiki.result = {}) =>
              /\ Len(wiki.outcomes) = 5
              /\ \A k \in 1..5 : FetchFailed(k)

C23_Call ==
    /\ facts' = facts
    /\ users' = users
    /\ (wiki.pc \in {"idle", "returned"} /\ wiki'.pc = "running")
          => wiki'.outcomes = <<>>

-----------------------------------------------------------------------------
(* Properties of the summaries that are persisted and sent *)

\* The share of Hebrew characters is at least 30 %.
HebrewShare(text) == hebrew_chars(text) * 100 >= 30 * Len(text)

Refuses(text) ==
    \E pattern \in avoid_patterns : Contains(lower(pattern), lower(text))

Validated(text, language) ==
    /\ text # <<>>
    /\ Len(text) \in 50..400
    /\ sentence_count(text) \in 1..5
    /\ ~Refuses(text)
    /\ language = "HEBREW" => HebrewShare(text)

-----------------------------------------------------------------------------
(* Properties of the order of update and reply *)

\* The activations that a step finishes.
Finished == {h \in BagToSet(handlers' (-) handlers) : h.pc = "done"}

Confirmations(h) ==
    {h.replies[k] : k \in {i \in 1..Len(h.replies) :
                             h.replies[i].kind = "subscription_changed"}}

\* C32: a subscription-changed confirmation is sent only when the store
\* holds the row of the recipient with the subscribed value the
\* confirmation states, written by the same event; an event whose update
\* raised or found no row sends no confirmation.
C32_Confirmed ==
    \A h \in Finished : \A m \in Confirmations(h) :
        /\ \E u \in users' : u.phone = m.to /\ u.subscribed = m.flag
        /\ history'[m.to] = Append(history[m.to], m.flag)

C32_NoneAfterFailure ==
    \A h \in HandlerSet : h.error => h.replies = <<>>

-----------------------------------------------------------------------------
(* Properties of the subscribed flag under inbound traffic *)

\* C33: inbound traffic never changes the subscribed flag of a stored
\* recipient: handle_number_response keeps "0" to "4" for itself, so no
\* activation enters handle_sub_menu_response with "1" or "2", every row
\* stays in the store with the flag it had, and every value written to
\* subscribed is the True of a new row.
C33_BranchesUnreachable ==
    \A h \in HandlerSet :
        h.pc = "submenu" => h.number \notin {<<"1">>, <<"2">>}

C33_FlagKept ==
    /\ \A u \in users : \E v \in users' :
          v.phone = u.phone /\ v.subscribed = u.subscribed
    /\ \A p \in Phones : \A k \in (Len(history[p]) + 1)..Len(history'[p]) :
          history'[p][k] = TRUE

-----------------------------------------------------------------------------
(* Properties of the replies to one inbound event *)

DigitReplies ==
    {"help", "subscription_menu", "language_menu", "main_menu",
     "subscription_changed"}

\* C34: the processing of one inbound event makes at most one send, and
\* exactly one when it ends without an exception with the recipient found
\* at the last lookup: the main menu for a new recipient and for a text
\* that is no number, and for a number one of help, subscription menu,
\* language menu, main menu or confirmation.
C34_OneReplyPerEvent ==
    \A h \in HandlerSet :
        /\ Len(h.replies) <= 1
        /\ (h.pc = "done" /\ ~h.error /\ h.user # {})
           => /\ Len(h.replies) = 1
              /\ h.replies[1].to = h.phone
              /\ h.first_contact => h.replies[1].kind = "main_menu"
              /\ (~h.first_contact /\ ~IsNumberResponse(ProcessedBody(h)))
                 => h.replies[1].kind = "main_menu"
              /\ (~h.first_contact /\ IsNumberResponse(ProcessedBody(h)))
                 => h.replies[1].kind \in DigitReplies

\* One address sent a first message, answered with the main menu, and
\* then "1", answered with the help text.
C34_Witness ==
    \E h1, h2 \in HandlerSet :
        /\ h1.pc = "done" /\ h2.pc = "done"
        /\ h1.phone = h2.phone
        /\ h1.first_contact /\ ~h1.error
        /\ h1.replies = <<send_main_menu(h1.phone, "ENGLISH")>>
        /\ ~h2.first_contact /\ h2.number = <<"1">>
        /\ h2.replies = <<send_help_message(h2.phone, "ENGLISH")>>

-----------------------------------------------------------------------------
(* Properties of the partitions of the fan-out *)

\* The run that a step ends with its broadcast.
Broadcasting(t) == runs[t].pc = "broadcast" /\ runs'[t].pc = "idle"

\* C35, the messages: every daily fact that was sent carries the summary
\* of the persisted fact of today in the language of its recipient.
C35_OwnPartition ==
    \A m \in BagToSet(daily_sends) :
        /\ m.date = DateOf(clock)
        /\ \E u \in users : u.phone = m.to /\ u.language = m.language
        /\ \E f \in facts : /\ f.date = m.date
                            /\ f.language = m.language
                            /\ f.summary = m.summary

\* C35, the lists: a run loads no users for a language it has no fact for.
C35_NotLoaded ==
    \A t \in Triggers, l \in LanguageSet :
        (runs[t].pc = "broadcast" /\ runs[t].facts_to_send[l] = {})
        => runs[t].users_by_language[l] = <<>>

\* C35, the report: broadcast_daily_facts returns 0 for a language that has
\* users and no fact, and sends to none of them.
C35_ReportsZero ==
    bcast.pc = "returned" =>
        \A l \in DOMAIN bcast.users_by_language :
            l \notin bcast.facts_by_language
            => /\ bcast.results[l] = 0
               /\ \A k \in 1..Len(bcast.users_by_language[l]) :
                     bcast.users_by_language[l][k]
                        \notin BagToSet(bcast.attempted)

\* C35, the sends of one broadcast: each is to a user of a language the
\* run has a fact for, with that fact.
C35_Sends ==
    \A m \in NewSends :
        \E t \in Triggers :
            /\ Broadcasting(t)
            /\ m.date = runs[t].today
            /\ runs[t].facts_to_send[m.language] = {m.summary}

-----------------------------------------------------------------------------
(* Properties of the languages of one run *)

\* C36: a run goes through every language whatever became of the others:
\* after the generation step each language either failed or has a fact to
\* send, a language that did not fail has its persisted fact to send, and
\* its subscribed users are the ones listed for the broadcast.
C36_LanguagesIndependent ==
    \A t \in Triggers : AfterGenerate(t) =>
        \A l \in LanguageSet :
            /\ (l \in runs[t].failed) # (runs[t].facts_to_send[l] # {})
            /\ l \notin runs[t].failed
               => /\ runs[t].facts_to_send[l] # {}
                  /\ runs[t].facts_to_send[l] =
                        PersistedSummary(runs[t].today, l)
            /\ (runs[t].pc = "broadcast" /\ l \notin runs[t].failed)
               => runs[t].users_by_language[l] =
                     get_subscribed_users_by_language(users, l)

\* The generation for English, the first language, failed; the run went
\* on, generated and persisted the Hebrew fact and is about to send it to
\* the subscribed Hebrew user.
C36_Witness ==
    \E t \in Triggers :
        /\ runs[t].pc = "broadcast"
        /\ runs[t].failed = {"ENGLISH"}
        /\ runs[t].wiki_calls["ENGLISH"] = 1
        /\ runs[t].ai_calls["HEBREW"] = 1
        /\ runs[t].facts_to_send["HEBREW"] = {Summary(t, "HEBREW")}
        /\ PersistedBy(t, "HEBREW") # {}
        /\ runs[t].users_by_language["HEBREW"] # <<>>

-----------------------------------------------------------------------------
(* Properties of two runs in one event loop *)

\* Both runs are suspended in their broadcast.
Overlapping ==
    \A t \in Triggers : runs[t].pc = "broadcast"

NoConflict == \A t \in Triggers : runs[t].conflicts = {}

\* A run reuses every fact of today that was persisted when it began.
ReusesPersisted ==
    \A t \in Triggers : \A l \in runs[t].had :
        runs[t].pc = "broadcast" =>
            /\ runs[t].wiki_calls[l] = 0
            /\ runs[t].ai_calls[l] = 0
            /\ runs[t].facts_to_send[l] = PersistedSummary(runs[t].today, l)

\* C37 as stated: two runs that overlap in one event loop never both call
\* the content source for the same language, never hit the unique index,
\* and the second reuses the fact of the first.
C37_NeverBothCall ==
    /\ NoConflict
    /\ ReusesPersisted
    /\ Overlapping =>
          \A l \in LanguageSet :
              ~(runs["cron"].wiki_calls[l] > 0 /\ runs["admin"].wiki_calls[l] > 0)

\* C37: two runs that overlap in one event loop never hit the unique
\* index, a run reuses every fact that was persisted when it began, and
\* when both called the content source for a language the generation of
\* one of them failed, so that at most one of them persisted a fact.
C37_NeverBothPersist ==
    /\ NoConflict
    /\ ReusesPersisted
    /\ Overlapping =>
          \A l \in LanguageSet :
              (runs["cron"].wiki_calls[l] > 0 /\ runs["admin"].wiki_calls[l] > 0)
              => /\ \E t \in Triggers : l \in runs[t].failed
                 /\ \E t \in Triggers : PersistedBy(t, l) = {}

\* Both runs are suspended in their broadcast: one generated the English
\* fact and the other, which began later, reused it; for Hebrew the
\* generation of the first failed and the second called the content source
\* again.
C37_Witness ==
    /\ Overlapping
    /\ \E t, u \in Triggers :
          /\ t # u
          /\ runs[t].wiki_calls["ENGLISH"] = 1
          /\ PersistedBy(t, "ENGLISH") # {}
          /\ "ENGLISH" \in runs[u].had
          /\ runs[u].wiki_calls["ENGLISH"] = 0
          /\ runs[u].facts_to_send["ENGLISH"] = {Summary(t, "ENGLISH")}
          /\ "HEBREW" \in runs[t].failed
          /\ runs[u].wiki_calls["HEBREW"] = 1

-----------------------------------------------------------------------------
(* Properties of the writes towards the caller *)

\* The call of create_user or update_user has ended.
WriteEnded ==
    /\ dbcall.pc \in {"returned", "raised"}
    /\ dbcall.call.name \in {"create_user", "update_user"}

\* The store holds a row of the call's phone that the call wrote: the
\* other rows were created before the call and never updated.
ChangeVisible ==
    \E u \in users :
        /\ u.phone = dbcall.call.phone
        /\ u.created_at = now \/ u.updated_at # {}

\* C38: when create_user or update_user raises to its caller the store
\* shows no change of the call, and when the call committed a row it
\* returns that row.
C38_AllOrNothing ==
    WriteEnded =>
        /\ dbcall.pc = "raised" => ~ChangeVisible
        /\ ChangeVisible
           => /\ dbcall.pc = "returned"
              /\ dbcall.result = get_user_by_phone(users, dbcall.call.phone)

====
